---- MODULE Spec2Model ----
(***************************************************************************)
(* Model of the vault-item engine of src/api/core/ciphers.rs: the cipher   *)
(* update pipeline (update_cipher_from_data and the handlers that call     *)
(* it), collection reconciliation and the attachment quota guard.          *)
(*                                                                         *)
(* The database is the tuple of variables ciphers, collections_ciphers,    *)
(* attachments, folders_ciphers, favorites.  Every handler is an operator  *)
(* that maps a database value and a request to a record                    *)
(*     [res, db, events, notifs]                                           *)
(* (res = "Ok" or the error the handler returns), so that handlers calling *)
(* other handlers compose as in the source.  An action applies one handler *)
(* to the current database and stores the outcome.                         *)
(***************************************************************************)
EXTENDS Integers, Sequences, FiniteSets, TLC

VARIABLES
    ciphers,              \* CipherId -> Cipher row (domain = stored ciphers)
    collections_ciphers,  \* set of <<cipher_uuid, collection_uuid>> links
    attachments,          \* AttachmentId -> Attachment row
    folders_ciphers,      \* set of <<user, cipher, folder>> assignments
    favorites,            \* set of <<user, cipher>>
    folders,              \* FolderId -> the user the folder belongs to
    members,              \* <<user, org>> -> Membership row
    policies,             \* organizations with the PersonalOwnership policy on
    now,                  \* the clock, in ticks
    id_pool,              \* the cipher ids the id generator can hand out
    config,               \* CONFIG: the attachment limits, in KiB, and
                          \* whether organization groups are enabled
    last,                 \* the last request and what the handler answered
    inflight              \* request id -> an update that has read its cipher
                          \* and has not been answered yet

vars == <<ciphers, collections_ciphers, attachments, folders_ciphers,
          favorites, folders, members, policies, now, id_pool, config,
          last, inflight>>

----------------------------------------------------------------------------
(* Bounds of the model *)

\* the clock runs from 0 to MaxTime ticks
MaxTime == 4
\* ticks per second: timestamps have sub-second precision
TicksPerSecond == 2
\* configured maximum note length (CONFIG._max_note_size()), scaled down
MaxNoteSize == 2
\* the largest value of the signed integers of the quota arithmetic (stands
\* for i64::MAX, scaled down)
MaxI64 == 536870911

None == "None"

Users == {"u1", "u2"}
Orgs == {"o1", "o2"}
Collections == {"c1", "c2", "c3"}
CipherIds == {"k1", "k2"}
AttachmentIds == {"a1", "a2"}
FolderIds == {"f1", "f2", "f3"}

\* Collection.org_uuid: the organization a collection belongs to
collection_org(c) == IF c = "c3" THEN "o2" ELSE "o1"

\* CollectionUser rows: <<user, collection>> -> read_only
users_collections ==
    ( <<"u2", "c1">> :> FALSE ) @@ ( <<"u2", "c2">> :> TRUE ) @@
    ( <<"u2", "c3">> :> FALSE )

\* Group rows: the organization of a group and its access_all flag
groups ==
    ( "g1" :> [organizations_uuid |-> "o1", access_all |-> FALSE] ) @@
    ( "g2" :> [organizations_uuid |-> "o1", access_all |-> FALSE] ) @@
    ( "g3" :> [organizations_uuid |-> "o2", access_all |-> TRUE] )

\* GroupUser rows: <<group, user>>
groups_users ==
    {<<"g1", "u1">>, <<"g1", "u2">>, <<"g2", "u1">>, <<"g3", "u1">>}

\* CollectionGroup rows: <<collection, group>> -> the grant
collections_groups ==
    ( <<"c1", "g2">> :>
        [read_only |-> TRUE, hide_passwords |-> TRUE, manage |-> FALSE] ) @@
    ( <<"c2", "g1">> :>
        [read_only |-> FALSE, hide_passwords |-> TRUE, manage |-> FALSE] ) @@
    ( <<"c2", "g2">> :>
        [read_only |-> TRUE, hide_passwords |-> FALSE, manage |-> TRUE] )

----------------------------------------------------------------------------
(* The database as one value *)

DB == [ciphers |-> ciphers, cc |-> collections_ciphers, atts |-> attachments,
       fc |-> folders_ciphers, fav |-> favorites, folders |-> folders]

\* an outcome of a handler
Out(res, db, events, notifs) ==
    [res |-> res, db |-> db, events |-> events, notifs |-> notifs]

\* err!(...): the handler returns the error; what was written stays written
Err(msg, db) == Out(msg, db, <<>>, <<>>)

----------------------------------------------------------------------------
(* Accessibility resolver (db::models, outside src/) *)

\* Membership::find_by_user_and_org
HasMember(u, o) == <<u, o>> \in DOMAIN members

\* Membership::has_full_access: access_all flag, or an Owner/Admin role
has_full_access(m) == m.access_all \/ m.atype \in {"Owner", "Admin"}

\* the user has a CollectionUser grant on the collection
HasGrant(u, c) == <<u, c>> \in DOMAIN users_collections

\* the groups of organization o the user belongs to; none when groups are
\* not enabled (CONFIG.org_groups_enabled)
GroupsOf(u, o) ==
    IF config.org_groups_enabled
    THEN {g \in DOMAIN groups :
             groups[g].organizations_uuid = o /\ <<g, u>> \in groups_users}
    ELSE {}

\* one of the user's groups has full access to the organization
HasGroupFullAccess(u, o) == \E g \in GroupsOf(u, o) : groups[g].access_all

\* the CollectionGroup grants on the collection reachable through the
\* user's groups
GroupGrants(u, c) ==
    {collections_groups[<<c, g>>] :
        g \in {h \in GroupsOf(u, collection_org(c)) :
                  <<c, h>> \in DOMAIN collections_groups}}

\* some grant of the user on the collection, direct or through a group
HasAnyGrant(u, c) == HasGrant(u, c) \/ GroupGrants(u, c) # {}

\* some grant of the user on the collection, direct or through a group,
\* that is not read-only: the most permissive grant wins
HasWriteGrant(u, c) ==
    \/ HasGrant(u, c) /\ ~users_collections[<<u, c>>]
    \/ \E g \in GroupGrants(u, c) : ~g.read_only

\* Collection::is_writable_by_user
is_writable_by_user(c, u) ==
    /\ HasMember(u, collection_org(c))
    /\ \/ has_full_access(members[<<u, collection_org(c)>>])
       \/ HasGroupFullAccess(u, collection_org(c))
       \/ HasWriteGrant(u, c)

\* the collection is visible to the user (any grant, or full access)
is_readable_by_user(c, u) ==
    /\ HasMember(u, collection_org(c))
    /\ \/ has_full_access(members[<<u, collection_org(c)>>])
       \/ HasGroupFullAccess(u, collection_org(c))
       \/ HasAnyGrant(u, c)

\* the collections a cipher is linked to
LinksOf(cc, cid) == {c \in Collections : <<cid, c>> \in cc}

\* Cipher::is_write_accessible_to_user, on the in-memory cipher struct
is_write_accessible_to_user(cipher, cid, u, cc) ==
    IF cipher.user_uuid = u THEN TRUE
    ELSE IF cipher.organization_uuid = None THEN FALSE
    ELSE IF ~HasMember(u, cipher.organization_uuid) THEN FALSE
    ELSE IF has_full_access(members[<<u, cipher.organization_uuid>>]) THEN TRUE
    ELSE IF HasGroupFullAccess(u, cipher.organization_uuid) THEN TRUE
    ELSE \E c \in LinksOf(cc, cid) : HasWriteGrant(u, c)

\* Cipher::is_accessible_to_user
is_accessible_to_user(cipher, cid, u, cc) ==
    IF cipher.user_uuid = u THEN TRUE
    ELSE IF cipher.organization_uuid = None THEN FALSE
    ELSE IF ~HasMember(u, cipher.organization_uuid) THEN FALSE
    ELSE IF has_full_access(members[<<u, cipher.organization_uuid>>]) THEN TRUE
    ELSE IF HasGroupFullAccess(u, cipher.organization_uuid) THEN TRUE
    ELSE \E c \in LinksOf(cc, cid) : HasAnyGrant(u, c)

\* Cipher::get_collections: the linked collections the user can see
get_collections(cid, u, cc) ==
    {c \in LinksOf(cc, cid) : is_readable_by_user(c, u)}

\* Cipher::get_admin_collections: an Owner/Admin sees every link of the
\* organization's collections
get_admin_collections(cid, u, cc) ==
    {c \in LinksOf(cc, cid) :
        \/ is_readable_by_user(c, u)
        \/ /\ HasMember(u, collection_org(c))
           /\ members[<<u, collection_org(c)>>].atype \in {"Owner", "Admin"}}

\* OrgPolicy::is_applicable_to_user(user, PersonalOwnership): the user is a
\* non-owner/admin member of an organization with the policy enabled
is_applicable_to_user(u) ==
    \E o \in policies :
        HasMember(u, o) /\ members[<<u, o>>].atype \notin {"Owner", "Admin"}

\* the policy check with is_some() for is_none(): only requests that declare
\* an organization are refused
enforce_personal_ownership_policy_Declared(declared, u) ==
    declared # None /\ is_applicable_to_user(u)

\* enforce_personal_ownership_policy: TRUE when it rejects.  declared is the
\* organization the request declares (None also when no CipherData is passed)
enforce_personal_ownership_policy(declared, u) ==
    declared = None /\ is_applicable_to_user(u)

\* Folder::find_by_uuid_and_user(..).is_some()
FolderOfUser(db, f, u) == f \in DOMAIN db.folders /\ db.folders[f] = u

----------------------------------------------------------------------------
(* Cipher rows and the update pipeline *)

\* Cipher::new(type, name): no owner yet, created now, no payload
NewCipher(type) ==
    [user_uuid |-> None, organization_uuid |-> None, updated_at |-> now,
     atype |-> type, data |-> 0, notes |-> -1, deleted |-> FALSE]

\* Cipher::save: writes the row and stamps updated_at with the current time
CipherSave(db, cid, cipher) ==
    [db EXCEPT !.ciphers =
        (cid :> [cipher EXCEPT !.updated_at = now]) @@ db.ciphers]

\* Cipher::move_to_folder(folder_id, user): the user's assignment only
move_to_folder(db, cid, folder_id, u) ==
    [db EXCEPT !.fc =
        {a \in db.fc : ~(a[1] = u /\ a[2] = cid)} \cup
        (IF folder_id = None THEN {} ELSE {<<u, cid, folder_id>>})]

\* Cipher::set_favorite(Option<bool>, user): None leaves it as it is
set_favorite(db, cid, favorite, u) ==
    IF favorite = "None" THEN db
    ELSE IF favorite = "true" THEN [db EXCEPT !.fav = db.fav \cup {<<u, cid>>}]
    ELSE [db EXCEPT !.fav = db.fav \ {<<u, cid>>}]

\* chrono Duration::num_seconds: whole seconds, truncated towards zero
num_seconds(d) ==
    IF d >= 0 THEN d \div TicksPerSecond ELSE -((-d) \div TicksPerSecond)

\* the staleness check with >= 1 for > 1: one second ahead is stale
StaleRejects_AtOneSecond(cipher, data, ut) ==
    /\ ut # "None"
    /\ data.last_known_revision_date.kind = "ok"
    /\ num_seconds(cipher.updated_at - data.last_known_revision_date.t) >= 1

\* the staleness check with the parse error raised instead of logged
StaleRejects_ParseError(cipher, data, ut) ==
    /\ ut # "None"
    /\ \/ data.last_known_revision_date.kind = "bad"
       \/ /\ data.last_known_revision_date.kind = "ok"
          /\ num_seconds(cipher.updated_at
                         - data.last_known_revision_date.t) > 1

\* the staleness check applied to imported items as well
StaleRejects_AlsoImport(cipher, data, ut) ==
    /\ data.last_known_revision_date.kind = "ok"
    /\ num_seconds(cipher.updated_at - data.last_known_revision_date.t) > 1

\* the staleness check of update_cipher_from_data: TRUE when it rejects.
\* An absent date and a date that does not parse are let through.
StaleRejects(cipher, data, ut) ==
    /\ ut # "None"
    /\ data.last_known_revision_date.kind = "ok"
    /\ num_seconds(cipher.updated_at - data.last_known_revision_date.t) > 1

\* the mismatch check applied only when the request declares an organization
OrgMismatch_DeclaredOnly(cipher, data) ==
    /\ cipher.organization_uuid # None
    /\ data.organization_id # None
    /\ cipher.organization_uuid # data.organization_id

\* the organization-mismatch check: TRUE when it rejects
OrgMismatch(cipher, data) ==
    /\ cipher.organization_uuid # None
    /\ cipher.organization_uuid # data.organization_id

\* the re-keying loop without the comparison of the attachment's cipher
RECURSIVE RekeyAttachments_AnyCipher(_, _, _)
RekeyAttachments_AnyCipher(atts, cid, ids) ==
    IF ids = <<>> THEN atts
    ELSE LET id == Head(ids) IN
         IF id \notin DOMAIN atts
         THEN RekeyAttachments_AnyCipher(atts, cid, Tail(ids))
         ELSE RekeyAttachments_AnyCipher(
                [atts EXCEPT ![id].akey = "rotated", ![id].file_name = "rotated"],
                cid, Tail(ids))

\* the attachment re-keying loop over data.attachments2 (ids in the order
\* the map is iterated): a missing attachment is skipped, an attachment of
\* another cipher ends the loop
RECURSIVE RekeyAttachments(_, _, _)
RekeyAttachments(atts, cid, ids) ==
    IF ids = <<>> THEN atts
    ELSE LET id == Head(ids) IN
         IF id \notin DOMAIN atts THEN RekeyAttachments(atts, cid, Tail(ids))
         ELSE IF atts[id].cipher_uuid # cid THEN atts
         ELSE RekeyAttachments(
                [atts EXCEPT ![id].akey = "rotated", ![id].file_name = "rotated"],
                cid, Tail(ids))

\* the audit event without the case of a transfer by an update
UpdateEventType_NoShared(ut, transfer_cipher) ==
    IF ut = "SyncCipherCreate" /\ transfer_cipher THEN "CipherCreated"
    ELSE "CipherUpdated"

\* the audit event of update_cipher_from_data
UpdateEventType(ut, transfer_cipher) ==
    IF ut = "SyncCipherCreate" /\ transfer_cipher THEN "CipherCreated"
    ELSE IF ut = "SyncCipherUpdate" /\ transfer_cipher THEN "CipherShared"
    ELSE "CipherUpdated"

\* the ownership step with the membership looked up only when the request
\* is not a share
AuthorizeOwnership_ShareFirst(cipher, cid, data, u, shared, cc) ==
    IF data.organization_id # None
    THEN IF shared.some THEN "Ok"
         ELSE IF ~HasMember(u, data.organization_id)
         THEN "NoPermissionAddItem"
         ELSE IF \/ has_full_access(members[<<u, data.organization_id>>])
                 \/ is_write_accessible_to_user(cipher, cid, u, cc)
              THEN "Ok"
              ELSE "NoPermissionAddDirectly"
    ELSE "Ok"

\* the ownership step of update_cipher_from_data: the error it raises, or
\* "Ok" when the cipher may be given to the declared owner
AuthorizeOwnership(cipher, cid, data, u, shared, cc) ==
    IF data.organization_id # None
    THEN IF ~HasMember(u, data.organization_id)
         THEN "NoPermissionAddItem"
         ELSE IF \/ shared.some
                 \/ has_full_access(members[<<u, data.organization_id>>])
                 \/ is_write_accessible_to_user(cipher, cid, u, cc)
              THEN "Ok"
              ELSE "NoPermissionAddDirectly"
    ELSE "Ok"

\* the owner fields without line 417, cipher.user_uuid = None
WithOwner_KeepsUser(cipher, data, u) ==
    IF data.organization_id # None
    THEN [cipher EXCEPT !.organization_uuid = data.organization_id]
    ELSE [cipher EXCEPT !.user_uuid = u]

\* the owner fields after the ownership step
WithOwner(cipher, data, u) ==
    IF data.organization_id # None
    THEN [cipher EXCEPT !.organization_uuid = data.organization_id,
                        !.user_uuid = None]
    ELSE [cipher EXCEPT !.user_uuid = u]

\* update_cipher_from_data(cipher, data, headers, shared_to_collections, ut)
update_cipher_from_data(db, cipher, cid, data, u, shared, ut) ==
    IF enforce_personal_ownership_policy(data.organization_id, u)
    THEN Err("PolicyViolation", db)
    ELSE IF StaleRejects(cipher, data, ut) THEN Err("OutOfDate", db)
    ELSE IF OrgMismatch(cipher, data) THEN Err("OrgMismatch", db)
    ELSE IF data.notes > MaxNoteSize THEN Err("NotesTooLong", db)
    ELSE LET transfer_cipher ==
                 cipher.organization_uuid = None /\ data.organization_id # None
             auth == AuthorizeOwnership(cipher, cid, data, u, shared, db.cc)
         IN
         IF auth # "Ok" THEN Err(auth, db)
         ELSE IF data.folder_id # None /\ ~FolderOfUser(db, data.folder_id, u)
         THEN Err("InvalidFolder", db)
         ELSE LET db1 == [db EXCEPT !.atts =
                            RekeyAttachments(db.atts, cid, data.attachments2)]
              IN
              IF data.atype \notin 1..5 THEN Err("InvalidType", db1)
              ELSE IF data.atype \notin data.payloads
              THEN Err("DataMissing", db1)
              ELSE LET c1 == [WithOwner(cipher, data, u) EXCEPT
                                 !.notes = data.notes, !.data = data.atype]
                       db2 == CipherSave(db1, cid, c1)
                       db3 == move_to_folder(db2, cid, data.folder_id, u)
                       db4 == set_favorite(db3, cid, data.favorite, u)
                       ev == IF ut # "None" /\ c1.organization_uuid # None
                             THEN << [type |-> UpdateEventType(ut, transfer_cipher),
                                      cipher |-> cid,
                                      org |-> c1.organization_uuid,
                                      user |-> u] >>
                             ELSE <<>>
                       nt == IF ut # "None"
                             THEN << [kind |-> "cipher", ut |-> ut, id |-> cid] >>
                             ELSE <<>>
                   IN Out("Ok", db4, ev, nt)

----------------------------------------------------------------------------
(* Handlers of the update pipeline *)

NoShare == [some |-> FALSE, ids |-> {}]

\* data.last_known_revision_date = None
WithoutRevisionDate(data) ==
    [data EXCEPT !.last_known_revision_date = [kind |-> "none", t |-> 0]]

\* an id for a row about to be created: any id not in use
FreshCipherId(db) == CHOOSE k \in id_pool : k \notin DOMAIN db.ciphers

\* post_ciphers: a new user-owned cipher
post_ciphers(db, data, u) ==
    update_cipher_from_data(db, NewCipher(data.atype), FreshCipherId(db),
                            WithoutRevisionDate(data), u, NoShare,
                            "SyncCipherCreate")

\* the update that runs the pipeline as a creation
put_cipher_AsCreate(db, cid, data, u) ==
    IF cid \notin DOMAIN db.ciphers THEN Err("CipherNotFound", db)
    ELSE IF ~is_write_accessible_to_user(db.ciphers[cid], cid, u, db.cc)
    THEN Err("NotWriteAccessible", db)
    ELSE update_cipher_from_data(db, db.ciphers[cid], cid, data, u, NoShare,
                                 "SyncCipherCreate")

\* put_cipher (post_cipher, put_cipher_admin, post_cipher_admin)
put_cipher(db, cid, data, u) ==
    IF cid \notin DOMAIN db.ciphers THEN Err("CipherNotFound", db)
    ELSE IF ~is_write_accessible_to_user(db.ciphers[cid], cid, u, db.cc)
    THEN Err("NotWriteAccessible", db)
    ELSE update_cipher_from_data(db, db.ciphers[cid], cid, data, u, NoShare,
                                 "SyncCipherUpdate")

\* the collection loop of share_cipher_by_uuid: links are saved one by one,
\* in the order of data.collection_ids, until a collection is refused
RECURSIVE ShareLinks(_, _, _, _, _)
ShareLinks(cc, cid, org, cols, u) ==
    IF cols = <<>> THEN [res |-> "Ok", cc |-> cc]
    ELSE LET c == Head(cols) IN
         IF collection_org(c) # org
         THEN [res |-> "InvalidCollection", cc |-> cc]
         ELSE IF ~is_writable_by_user(c, u)
         THEN [res |-> "NoRightsCollection", cc |-> cc]
         ELSE ShareLinks(cc \cup {<<cid, c>>}, cid, org, Tail(cols), u)

SeqRange(q) == {q[i] : i \in 1..Len(q)}

\* share_cipher_by_uuid
share_cipher_by_uuid(db, cid, data, collection_ids, u) ==
    IF cid \notin DOMAIN db.ciphers THEN Err("CipherNotFound", db)
    ELSE IF ~is_write_accessible_to_user(db.ciphers[cid], cid, u, db.cc)
    THEN Err("NotWriteAccessible", db)
    ELSE LET links == IF data.organization_id # None
                      THEN ShareLinks(db.cc, cid, data.organization_id,
                                      collection_ids, u)
                      ELSE [res |-> "Ok", cc |-> db.cc]
             db1 == [db EXCEPT !.cc = links.cc]
             shared == [some |-> TRUE,
                        ids |-> IF data.organization_id # None
                                THEN SeqRange(collection_ids) ELSE {}]
             ut == IF data.last_known_revision_date.kind # "none"
                   THEN "SyncCipherUpdate" ELSE "SyncCipherCreate"
         IN
         IF links.res # "Ok" THEN Err(links.res, db1)
         ELSE update_cipher_from_data(db1, db.ciphers[cid], cid, data, u,
                                      shared, ut)

\* post_ciphers_create (post_ciphers_admin): create or clone, then share
post_ciphers_create(db, data, collection_ids, u) ==
    IF data.organization_id # None /\ collection_ids = <<>>
    THEN Err("NoCollectionSelected", db)
    ELSE IF enforce_personal_ownership_policy(data.organization_id, u)
    THEN Err("PolicyViolation", db)
    ELSE LET cid == FreshCipherId(db)
             db1 == CipherSave(db, cid,
                        [NewCipher(data.atype) EXCEPT !.user_uuid = u])
         IN share_cipher_by_uuid(db1, cid, WithoutRevisionDate(data),
                                 collection_ids, u)

\* the loop of put_cipher_share_selected: data.ciphers.pop() takes the
\* items from the end of the list, and the first error ends the request
RECURSIVE share_ciphers(_, _, _, _)
share_ciphers(db, items, collection_ids, u) ==
    IF items = <<>> THEN Out("Ok", db, <<>>, <<>>)
    ELSE LET item == items[Len(items)]
             out == share_cipher_by_uuid(db, item.id, item.data,
                                         collection_ids, u)
         IN IF out.res # "Ok" THEN out
            ELSE LET rest == share_ciphers(out.db,
                                 SubSeq(items, 1, Len(items) - 1),
                                 collection_ids, u)
                 IN Out(rest.res, rest.db, out.events \o rest.events,
                        out.notifs \o rest.notifs)

\* put_cipher_share_selected: items = <<[id, data], ...>>, id None when the
\* posted cipher carries no id
put_cipher_share_selected(db, items, collection_ids, u) ==
    IF items = <<>> THEN Err("NoCipherSelected", db)
    ELSE IF collection_ids = <<>> THEN Err("NoCollectionSelected", db)
    ELSE IF \E i \in 1..Len(items) : items[i].id = None
    THEN Err("MissingIds", db)
    ELSE share_ciphers(db, items, collection_ids, u)

\* Cipher::delete: the row with its attachments, links and assignments
CipherDelete(db, cid) ==
    [ciphers |-> [k \in DOMAIN db.ciphers \ {cid} |-> db.ciphers[k]],
     cc |-> {l \in db.cc : l[1] # cid},
     atts |-> [a \in {x \in DOMAIN db.atts : db.atts[x].cipher_uuid # cid}
                  |-> db.atts[a]],
     fc |-> {a \in db.fc : a[2] # cid},
     fav |-> {a \in db.fav : a[2] # cid},
     folders |-> db.folders]

\* _delete_cipher_by_uuid
delete_cipher_by_uuid(db, cid, u, soft_delete) ==
    IF cid \notin DOMAIN db.ciphers THEN Err("CipherNotFound", db)
    ELSE IF ~is_write_accessible_to_user(db.ciphers[cid], cid, u, db.cc)
    THEN Err("NotWriteAccessible", db)
    ELSE LET cipher == db.ciphers[cid]
             db1 == IF soft_delete
                    THEN CipherSave(db, cid, [cipher EXCEPT !.deleted = TRUE])
                    ELSE CipherDelete(db, cid)
             nt == << [kind |-> "cipher",
                       ut |-> IF soft_delete THEN "SyncCipherUpdate"
                              ELSE "SyncCipherDelete",
                       id |-> cid] >>
             ev == IF cipher.organization_uuid # None
                   THEN << [type |-> IF soft_delete THEN "CipherSoftDeleted"
                                     ELSE "CipherDeleted",
                            cipher |-> cid, org |-> cipher.organization_uuid,
                            user |-> u] >>
                   ELSE <<>>
         IN Out("Ok", db1, ev, nt)

----------------------------------------------------------------------------
(* Collection reconciliation *)

\* the orders in which a HashSet of collections may be iterated
Orders(S) ==
    {q \in UNION {[1..n -> S] : n \in {Cardinality(S)}} : SeqRange(q) = S}

\* posted_collections.symmetric_difference(&current_collections): the
\* collections only in posted, then those only in current, each part in the
\* order its HashSet yields
symmetric_difference(posted, current) ==
    {a \o b : a \in Orders(posted \ current), b \in Orders(current \ posted)}

\* the loop without the Remove branch: links are only added
RECURSIVE ReconcileLinks_AddOnly(_, _, _, _, _, _)
ReconcileLinks_AddOnly(cc, cid, org, posted, order, u) ==
    IF order = <<>> THEN [res |-> "Ok", cc |-> cc]
    ELSE LET c == Head(order) IN
         IF org = None THEN [res |-> "Panic", cc |-> cc]
         ELSE IF collection_org(c) # org
         THEN [res |-> "InvalidCollection", cc |-> cc]
         ELSE IF ~is_writable_by_user(c, u)
         THEN [res |-> "NoRightsCollection", cc |-> cc]
         ELSE ReconcileLinks_AddOnly(IF c \in posted THEN cc \cup {<<cid, c>>}
                                     ELSE cc,
                                     cid, org, posted, Tail(order), u)

\* the loop of post_collections_update over the symmetric difference, in
\* iteration order: every collection is looked up in the cipher's
\* organization and checked, and its link is saved or deleted at once
RECURSIVE ReconcileLinks(_, _, _, _, _, _)
ReconcileLinks(cc, cid, org, posted, order, u) ==
    IF order = <<>> THEN [res |-> "Ok", cc |-> cc]
    ELSE LET c == Head(order) IN
         IF org = None THEN [res |-> "Panic", cc |-> cc]
         ELSE IF collection_org(c) # org
         THEN [res |-> "InvalidCollection", cc |-> cc]
         ELSE IF ~is_writable_by_user(c, u)
         THEN [res |-> "NoRightsCollection", cc |-> cc]
         ELSE ReconcileLinks(IF c \in posted THEN cc \cup {<<cid, c>>}
                             ELSE cc \ {<<cid, c>>},
                             cid, org, posted, Tail(order), u)

\* the collections the handler takes as currently linked
CurrentCollections(db, cid, u, admin) ==
    IF admin THEN get_admin_collections(cid, u, db.cc)
    ELSE get_collections(cid, u, db.cc)

\* post_collections_update (admin = FALSE) and post_collections_admin
\* (admin = TRUE); order is the iteration order of the symmetric difference
post_collections_update(db, cid, posted, order, u, admin) ==
    IF cid \notin DOMAIN db.ciphers THEN Err("CipherNotFound", db)
    ELSE IF ~is_write_accessible_to_user(db.ciphers[cid], cid, u, db.cc)
    THEN Err("NotWriteAccessible", db)
    ELSE LET cipher == db.ciphers[cid]
             rec == ReconcileLinks(db.cc, cid, cipher.organization_uuid,
                                   posted, order, u)
             db1 == [db EXCEPT !.cc = rec.cc]
             nt == << [kind |-> "cipher", ut |-> "SyncCipherUpdate",
                       id |-> cid] >>
         IN
         IF rec.res # "Ok" THEN Err(rec.res, db1)
         ELSE IF cipher.organization_uuid = None
         THEN Out("Panic", db1, <<>>, nt)
         ELSE Out("Ok", db1,
                  << [type |-> "CipherUpdatedCollections", cipher |-> cid,
                      org |-> cipher.organization_uuid, user |-> u] >>, nt)

----------------------------------------------------------------------------
(* Import *)

FreshFolderId(db) == CHOOSE f \in FolderIds : f \notin DOMAIN db.folders

\* the folder loop of post_ciphers_import: a posted folder whose id is one
\* of the user's folders is reused, any other is created for the user
RECURSIVE ImportFolders(_, _, _, _)
ImportFolders(db, posted, u, acc) ==
    IF posted = <<>> THEN [db |-> db, ids |-> acc]
    ELSE IF FolderOfUser(db, Head(posted), u)
    THEN ImportFolders(db, Tail(posted), u, Append(acc, Head(posted)))
    ELSE LET f == FreshFolderId(db) IN
         ImportFolders([db EXCEPT !.folders = (f :> u) @@ db.folders],
                       Tail(posted), u, Append(acc, f))

\* the cipher loop of post_ciphers_import: items are saved one by one with
\* UpdateType::None and the loop ends at the first error
RECURSIVE ImportCiphers(_, _, _, _, _, _)
ImportCiphers(db, items, index, rel, fids, u) ==
    IF index > Len(items) THEN [res |-> "Ok", db |-> db]
    ELSE IF index \in DOMAIN rel /\ rel[index] \notin 1..Len(fids)
    THEN [res |-> "Panic", db |-> db]
    ELSE LET folder_id == IF index \in DOMAIN rel THEN fids[rel[index]]
                          ELSE None
             data == [items[index] EXCEPT !.folder_id = folder_id]
             out == update_cipher_from_data(db, NewCipher(data.atype),
                        FreshCipherId(db), data, u, NoShare, "None")
         IN IF out.res # "Ok" THEN [res |-> out.res, db |-> out.db]
            ELSE ImportCiphers(out.db, items, index + 1, rel, fids, u)

\* post_ciphers_import; imp = [ciphers, folders, folder_relationships]
post_ciphers_import(db, imp, u) ==
    IF enforce_personal_ownership_policy(None, u)
    THEN Err("PolicyViolation", db)
    ELSE IF \E i \in 1..Len(imp.ciphers) : imp.ciphers[i].notes > MaxNoteSize
    THEN Err("NotesTooLong", db)
    ELSE LET fl == ImportFolders(db, imp.folders, u, <<>>)
             cl == ImportCiphers(fl.db, imp.ciphers, 1,
                                 imp.folder_relationships, fl.ids, u)
         IN IF cl.res # "Ok" THEN Err(cl.res, cl.db)
            ELSE Out("Ok", cl.db, <<>>,
                     << [kind |-> "user", ut |-> "SyncVault", id |-> u] >>)

----------------------------------------------------------------------------
(* Attachments *)

\* Option<i64>
SomeI64(v) == [some |-> TRUE, v |-> v]
NoneI64 == [some |-> FALSE, v |-> 0]

\* i64::checked_mul, checked_sub, checked_add, for b >= 0 in checked_mul
\* multiplication that wraps around the integer width
checked_mul_Wrapping(a, b) ==
    SomeI64(((a * b + (MaxI64 + 1)) % (2 * (MaxI64 + 1))) - (MaxI64 + 1))

checked_mul(a, b) ==
    IF b = 0 THEN SomeI64(0)
    ELSE IF a > MaxI64 \div b \/ a < -((MaxI64 + 1) \div b) THEN NoneI64
    ELSE SomeI64(a * b)

checked_sub(a, b) ==
    IF a - b > MaxI64 \/ a - b < -(MaxI64 + 1) THEN NoneI64
    ELSE SomeI64(a - b)

checked_add(a, b) ==
    IF a + b > MaxI64 \/ a + b < -(MaxI64 + 1) THEN NoneI64
    ELSE SomeI64(a + b)

\* limit_kb.checked_mul(1024).and_then(checked_sub already_used)
\*          .and_then(checked_add size_adjust)
QuotaLeft(limit_kb, already_used, size_adjust) ==
    LET l1 == checked_mul(limit_kb, 1024)
        l2 == IF l1.some THEN checked_sub(l1.v, already_used) ELSE NoneI64
    IN IF l2.some THEN checked_add(l2.v, size_adjust) ELSE NoneI64

RECURSIVE SumSizes(_, _)
SumSizes(atts, ids) ==
    IF ids = {} THEN 0
    ELSE LET a == CHOOSE x \in ids : TRUE
         IN atts[a].file_size + SumSizes(atts, ids \ {a})

\* Attachment::size_by_user, size_by_org: the bytes of the attachment rows of
\* the owner's ciphers
size_by_user(db, u) ==
    SumSizes(db.atts, {a \in DOMAIN db.atts :
                         /\ db.atts[a].cipher_uuid \in DOMAIN db.ciphers
                         /\ db.ciphers[db.atts[a].cipher_uuid].user_uuid = u})

size_by_org(db, o) ==
    SumSizes(db.atts, {a \in DOMAIN db.atts :
                 /\ db.atts[a].cipher_uuid \in DOMAIN db.ciphers
                 /\ db.ciphers[db.atts[a].cipher_uuid].organization_uuid = o})

\* the quota guard with left < 0 for left <= 0
QuotaGuard_Negative(limit, already_used, size_adjust) ==
    IF ~limit.some THEN [err |-> "Ok", size_limit |-> NoneI64]
    ELSE IF limit.v = 0
    THEN [err |-> "AttachmentsDisabled", size_limit |-> NoneI64]
    ELSE LET left == QuotaLeft(limit.v, already_used, size_adjust)
         IN IF ~left.some
            THEN [err |-> "SizeOverflow", size_limit |-> NoneI64]
            ELSE IF left.v < 0
            THEN [err |-> "LimitReached", size_limit |-> NoneI64]
            ELSE [err |-> "Ok", size_limit |-> left]

\* the quota guard of save_attachment for one owner: the error it raises or
\* "Ok", and the Option<i64> size limit it hands on
QuotaGuard(limit, already_used, size_adjust) ==
    IF ~limit.some THEN [err |-> "Ok", size_limit |-> NoneI64]
    ELSE IF limit.v = 0
    THEN [err |-> "AttachmentsDisabled", size_limit |-> NoneI64]
    ELSE LET left == QuotaLeft(limit.v, already_used, size_adjust)
         IN IF ~left.some
            THEN [err |-> "SizeOverflow", size_limit |-> NoneI64]
            ELSE IF left.v <= 0
            THEN [err |-> "LimitReached", size_limit |-> NoneI64]
            ELSE [err |-> "Ok", size_limit |-> left]

\* the size limit of save_attachment, by the owner of the cipher
SizeLimit(db, cipher, size_adjust, cfg) ==
    IF cipher.user_uuid # None
    THEN QuotaGuard(cfg.user_attachment_limit,
                    size_by_user(db, cipher.user_uuid), size_adjust)
    ELSE IF cipher.organization_uuid # None
    THEN QuotaGuard(cfg.org_attachment_limit,
                    size_by_org(db, cipher.organization_uuid), size_adjust)
    ELSE [err |-> "NoOwner", size_limit |-> NoneI64]

LEEWAY == 1024 * 1024

\* Attachment::new(id, cipher_uuid, file_name, file_size, key)
NewAttachment(cid, file_size) ==
    [cipher_uuid |-> cid, file_size |-> file_size, akey |-> "key",
     file_name |-> "name"]

AttachmentSave(db, aid, row) ==
    [db EXCEPT !.atts = (aid :> row) @@ db.atts]

AttachmentDelete(db, aid) ==
    [db EXCEPT !.atts = [a \in DOMAIN db.atts \ {aid} |-> db.atts[a]]]

\* crypto::generate_attachment_id: any id not in use
FreshAttachmentId(db) ==
    CHOOSE a \in AttachmentIds : a \notin DOMAIN db.atts

\* the size check with the boundaries of the band excluded
SizeCheck_Exclusive(file_size, size) ==
    LET max_size == checked_add(file_size, LEEWAY)
        min_size == checked_sub(file_size, LEEWAY)
    IN IF ~max_size.some THEN "InvalidSizeMax"
       ELSE IF ~min_size.some THEN "InvalidSizeMin"
       ELSE IF min_size.v < size /\ size < max_size.v THEN "Ok"
       ELSE "SizeMismatch"

\* the size check with the band one byte wider on both sides
SizeCheck_Wider(file_size, size) ==
    LET max_size == checked_add(file_size, LEEWAY + 1)
        min_size == checked_sub(file_size, LEEWAY + 1)
    IN IF ~max_size.some THEN "InvalidSizeMax"
       ELSE IF ~min_size.some THEN "InvalidSizeMin"
       ELSE IF min_size.v <= size /\ size <= max_size.v THEN "Ok"
       ELSE "SizeMismatch"

\* the size check of the v2 API: the received size against the size
\* declared at reservation, with LEEWAY bytes of deviation allowed
SizeCheck(file_size, size) ==
    LET max_size == checked_add(file_size, LEEWAY)
        min_size == checked_sub(file_size, LEEWAY)
    IN IF ~max_size.some THEN "InvalidSizeMax"
       ELSE IF ~min_size.some THEN "InvalidSizeMin"
       ELSE IF min_size.v <= size /\ size <= max_size.v THEN "Ok"
       ELSE "SizeMismatch"

\* save_attachment; attachment is the id of the record reserved by the v2
\* API, or None for the legacy API; upload = [size, has_name, has_key]
save_attachment(db, attachment, cid, upload, u, cfg) ==
    LET size == upload.size IN
    IF size < 0 THEN Err("NegativeSize", db)
    ELSE IF cid \notin DOMAIN db.ciphers THEN Err("CipherNotFound", db)
    ELSE IF ~is_write_accessible_to_user(db.ciphers[cid], cid, u, db.cc)
    THEN Err("NotWriteAccessible", db)
    ELSE
    LET cipher == db.ciphers[cid]
        size_adjust == IF attachment = None THEN 0
                       ELSE db.atts[attachment].file_size
        guard == SizeLimit(db, cipher, size_adjust, cfg)
        nt == << [kind |-> "cipher", ut |-> "SyncCipherUpdate", id |-> cid] >>
        ev == IF cipher.organization_uuid # None
              THEN << [type |-> "CipherAttachmentCreated", cipher |-> cid,
                       org |-> cipher.organization_uuid, user |-> u] >>
              ELSE <<>>
    IN
    IF guard.err # "Ok" THEN Err(guard.err, db)
    ELSE IF guard.size_limit.some /\ size > guard.size_limit.v
    THEN Err("LimitExceeded", db)
    ELSE IF attachment # None
    THEN LET row == db.atts[attachment]
             check == SizeCheck(row.file_size, size)
         IN IF check \in {"InvalidSizeMax", "InvalidSizeMin"}
            THEN Err(check, db)
            ELSE IF check = "Ok"
            THEN Out("Ok",
                     IF size # row.file_size
                     THEN AttachmentSave(db, attachment,
                                         [row EXCEPT !.file_size = size])
                     ELSE db,
                     ev, nt)
            ELSE Err("SizeMismatch", AttachmentDelete(db, attachment))
    ELSE IF ~upload.has_name THEN Err("NoFilename", db)
    ELSE IF ~upload.has_key THEN Err("NoKey", db)
    ELSE Out("Ok",
             AttachmentSave(db, FreshAttachmentId(db), NewAttachment(cid, size)),
             ev, nt)

\* the reservation open to whoever can read the cipher
post_attachment_v2_ReadAccess(db, cid, file_size, u) ==
    IF cid \notin DOMAIN db.ciphers THEN Err("CipherNotFound", db)
    ELSE IF ~is_accessible_to_user(db.ciphers[cid], cid, u, db.cc)
    THEN Err("NotWriteAccessible", db)
    ELSE IF file_size < 0 THEN Err("NegativeSize", db)
    ELSE Out("Ok",
             AttachmentSave(db, FreshAttachmentId(db),
                            NewAttachment(cid, file_size)),
             <<>>, <<>>)

\* post_attachment_v2: reserves the attachment record with the declared size
post_attachment_v2(db, cid, file_size, u) ==
    IF cid \notin DOMAIN db.ciphers THEN Err("CipherNotFound", db)
    ELSE IF ~is_write_accessible_to_user(db.ciphers[cid], cid, u, db.cc)
    THEN Err("NotWriteAccessible", db)
    ELSE IF file_size < 0 THEN Err("NegativeSize", db)
    ELSE Out("Ok",
             AttachmentSave(db, FreshAttachmentId(db),
                            NewAttachment(cid, file_size)),
             <<>>, <<>>)

\* post_attachment_v2_data: the data of a reserved attachment
post_attachment_v2_data(db, cid, aid, upload, u, cfg) ==
    IF aid \notin DOMAIN db.atts THEN Err("AttachmentNotFound", db)
    ELSE IF db.atts[aid].cipher_uuid # cid
    THEN Err("AttachmentWrongCipher", db)
    ELSE save_attachment(db, aid, cid, upload, u, cfg)

\* post_attachment (post_attachment_admin): the legacy upload
post_attachment(db, cid, upload, u, cfg) ==
    save_attachment(db, None, cid, upload, u, cfg)

\* the deletion without the comparison of the attachment's cipher
delete_cipher_attachment_by_id_AnyCipher(db, cid, aid, u) ==
    IF aid \notin DOMAIN db.atts THEN Err("AttachmentNotFound", db)
    ELSE IF cid \notin DOMAIN db.ciphers THEN Err("CipherNotFound", db)
    ELSE IF ~is_write_accessible_to_user(db.ciphers[cid], cid, u, db.cc)
    THEN Err("NotWriteAccessible", db)
    ELSE LET cipher == db.ciphers[cid] IN
         Out("Ok", AttachmentDelete(db, aid),
             IF cipher.organization_uuid # None
             THEN << [type |-> "CipherAttachmentDeleted", cipher |-> cid,
                      org |-> cipher.organization_uuid, user |-> u] >>
             ELSE <<>>,
             << [kind |-> "cipher", ut |-> "SyncCipherUpdate", id |-> cid] >>)

\* _delete_cipher_attachment_by_id
delete_cipher_attachment_by_id(db, cid, aid, u) ==
    IF aid \notin DOMAIN db.atts THEN Err("AttachmentNotFound", db)
    ELSE IF db.atts[aid].cipher_uuid # cid
    THEN Err("AttachmentWrongCipher", db)
    ELSE IF cid \notin DOMAIN db.ciphers THEN Err("CipherNotFound", db)
    ELSE IF ~is_write_accessible_to_user(db.ciphers[cid], cid, u, db.cc)
    THEN Err("NotWriteAccessible", db)
    ELSE LET cipher == db.ciphers[cid] IN
         Out("Ok", AttachmentDelete(db, aid),
             IF cipher.organization_uuid # None
             THEN << [type |-> "CipherAttachmentDeleted", cipher |-> cid,
                      org |-> cipher.organization_uuid, user |-> u] >>
             ELSE <<>>,
             << [kind |-> "cipher", ut |-> "SyncCipherUpdate", id |-> cid] >>)

\* post_attachment_share: the attachment is deleted, then the legacy upload
\* runs on what the deletion left
post_attachment_share(db, cid, aid, upload, u, cfg) ==
    LET deleted == delete_cipher_attachment_by_id(db, cid, aid, u) IN
    IF deleted.res # "Ok" THEN deleted
    ELSE LET out == post_attachment(deleted.db, cid, upload, u, cfg)
         IN Out(out.res, out.db, deleted.events \o out.events,
                deleted.notifs \o out.notifs)

\* get_attachment: the download location of an attachment of the cipher
get_attachment(db, cid, aid, u) ==
    IF cid \notin DOMAIN db.ciphers THEN Err("CipherNotFound", db)
    ELSE IF ~is_accessible_to_user(db.ciphers[cid], cid, u, db.cc)
    THEN Err("NotAccessible", db)
    ELSE IF aid \notin DOMAIN db.atts THEN Err("AttachmentNotFound", db)
    ELSE IF db.atts[aid].cipher_uuid # cid
    THEN Err("AttachmentWrongCipher", db)
    ELSE Out("Ok", db, <<>>, <<>>)

\* the read that answers the owner of a personal cipher only
get_cipher_OwnerOnly(db, cid, u) ==
    IF cid \notin DOMAIN db.ciphers THEN Err("CipherNotFound", db)
    ELSE IF db.ciphers[cid].user_uuid # u THEN Err("NotAccessible", db)
    ELSE Out("Ok", db, <<>>, <<>>)

\* get_cipher: the cipher as JSON for a user who may read it
get_cipher(db, cid, u) ==
    IF cid \notin DOMAIN db.ciphers THEN Err("CipherNotFound", db)
    ELSE IF ~is_accessible_to_user(db.ciphers[cid], cid, u, db.cc)
    THEN Err("NotAccessible", db)
    ELSE Out("Ok", db, <<>>, <<>>)

\* the restore with the audit event logged whoever owns the cipher
restore_cipher_by_uuid_AlwaysLogs(db, cid, u) ==
    IF cid \notin DOMAIN db.ciphers THEN Err("CipherNotFound", db)
    ELSE IF ~is_write_accessible_to_user(db.ciphers[cid], cid, u, db.cc)
    THEN Err("NotRestorable", db)
    ELSE LET cipher == db.ciphers[cid] IN
         Out("Ok", CipherSave(db, cid, [cipher EXCEPT !.deleted = FALSE]),
             << [type |-> "CipherRestored", cipher |-> cid,
                 org |-> cipher.organization_uuid, user |-> u] >>,
             << [kind |-> "cipher", ut |-> "SyncCipherUpdate", id |-> cid] >>)

\* _restore_cipher_by_uuid
restore_cipher_by_uuid(db, cid, u) ==
    IF cid \notin DOMAIN db.ciphers THEN Err("CipherNotFound", db)
    ELSE IF ~is_write_accessible_to_user(db.ciphers[cid], cid, u, db.cc)
    THEN Err("NotRestorable", db)
    ELSE LET cipher == db.ciphers[cid] IN
         Out("Ok", CipherSave(db, cid, [cipher EXCEPT !.deleted = FALSE]),
             IF cipher.organization_uuid # None
             THEN << [type |-> "CipherRestored", cipher |-> cid,
                      org |-> cipher.organization_uuid, user |-> u] >>
             ELSE <<>>,
             << [kind |-> "cipher", ut |-> "SyncCipherUpdate", id |-> cid] >>)

\* the bulk delete that goes on with the next id after a failure and
\* returns the last answer
RECURSIVE delete_multiple_ciphers_SkipsFailures(_, _, _, _)
delete_multiple_ciphers_SkipsFailures(db, ids, u, soft_delete) ==
    IF ids = <<>> THEN Out("Ok", db, <<>>, <<>>)
    ELSE LET out == delete_cipher_by_uuid(db, Head(ids), u, soft_delete)
             rest == delete_multiple_ciphers_SkipsFailures(
                         out.db, Tail(ids), u, soft_delete)
         IN Out(IF Tail(ids) = <<>> THEN out.res ELSE rest.res, rest.db,
                out.events \o rest.events, out.notifs \o rest.notifs)

\* _delete_multiple_ciphers: the ids one by one, in the order posted,
\* returning the first error; the events and notifications of the items
\* deleted before it have been dispatched
RECURSIVE delete_multiple_ciphers(_, _, _, _)
delete_multiple_ciphers(db, ids, u, soft_delete) ==
    IF ids = <<>> THEN Out("Ok", db, <<>>, <<>>)
    ELSE LET out == delete_cipher_by_uuid(db, Head(ids), u, soft_delete) IN
         IF out.res # "Ok" THEN out
         ELSE LET rest == delete_multiple_ciphers(out.db, Tail(ids), u,
                                                  soft_delete)
              IN Out(rest.res, rest.db, out.events \o rest.events,
                     out.notifs \o rest.notifs)

\* _restore_multiple_ciphers
RECURSIVE restore_multiple_ciphers(_, _, _)
restore_multiple_ciphers(db, ids, u) ==
    IF ids = <<>> THEN Out("Ok", db, <<>>, <<>>)
    ELSE LET out == restore_cipher_by_uuid(db, Head(ids), u) IN
         IF out.res # "Ok" THEN out
         ELSE LET rest == restore_multiple_ciphers(out.db, Tail(ids), u)
              IN Out(rest.res, rest.db, out.events \o rest.events,
                     out.notifs \o rest.notifs)

----------------------------------------------------------------------------
(* Purge *)

\* Cipher::delete for each of the ciphers ids
RECURSIVE DeleteCiphersOf(_, _)
DeleteCiphersOf(db, ids) ==
    IF ids = {} THEN db
    ELSE LET k == CHOOSE x \in ids : TRUE
         IN DeleteCiphersOf(CipherDelete(db, k), ids \ {k})

\* Cipher::delete_all_by_organization
delete_all_by_organization(db, o) ==
    DeleteCiphersOf(db, {k \in DOMAIN db.ciphers :
                            db.ciphers[k].organization_uuid = o})

\* Folder::delete for each folder of Folder::find_by_user: the folder and
\* the assignments of ciphers to it
DeleteFoldersOf(db, u) ==
    LET kept == {f \in DOMAIN db.folders : db.folders[f] # u} IN
    [db EXCEPT !.folders = [f \in kept |-> db.folders[f]],
               !.fc = {a \in db.fc : a[3] \in kept}]

\* the purge that any member with full access may run
delete_all_FullAccess(db, organization, validated, u) ==
    LET nt == << [kind |-> "user", ut |-> "SyncVault", id |-> u] >> IN
    IF ~validated THEN Err("InvalidPassword", db)
    ELSE IF organization # None
    THEN IF ~HasMember(u, organization) THEN Err("NoPermissionPurge", db)
         ELSE IF has_full_access(members[<<u, organization>>])
         THEN Out("Ok", delete_all_by_organization(db, organization),
                  << [type |-> "OrganizationPurgedVault",
                      cipher |-> organization, org |-> organization,
                      user |-> u] >>, nt)
         ELSE Err("NoPermissionPurge", db)
    ELSE Out("Ok",
             DeleteFoldersOf(
                 DeleteCiphersOf(db, {k \in DOMAIN db.ciphers :
                                         db.ciphers[k].user_uuid = u}), u),
             <<>>, nt)

\* delete_all (POST /ciphers/purge): organization is the id of the query
\* string or None; validated is the answer of PasswordOrOtpData::validate
delete_all(db, organization, validated, u) ==
    LET nt == << [kind |-> "user", ut |-> "SyncVault", id |-> u] >> IN
    IF ~validated THEN Err("InvalidPassword", db)
    ELSE IF organization # None
    THEN IF ~HasMember(u, organization) THEN Err("NoPermissionPurge", db)
         ELSE IF members[<<u, organization>>].atype = "Owner"
         THEN Out("Ok", delete_all_by_organization(db, organization),
                  << [type |-> "OrganizationPurgedVault",
                      cipher |-> organization, org |-> organization,
                      user |-> u] >>, nt)
         ELSE Err("NoPermissionPurge", db)
    ELSE Out("Ok",
             DeleteFoldersOf(
                 DeleteCiphersOf(db, {k \in DOMAIN db.ciphers :
                                         db.ciphers[k].user_uuid = u}), u),
             <<>>, nt)

----------------------------------------------------------------------------
(* Folders, favorites and the sync snapshot *)

\* the partial update that marks the favorite of the owner of the cipher
put_cipher_partial_OfOwner(db, cid, data, u) ==
    IF cid \notin DOMAIN db.ciphers THEN Err("CipherNotFound", db)
    ELSE IF data.folder_id # None /\ ~FolderOfUser(db, data.folder_id, u)
    THEN Err("InvalidFolder", db)
    ELSE LET db1 == move_to_folder(db, cid, data.folder_id, u)
             db2 == set_favorite(db1, cid,
                                 IF data.favorite THEN "true" ELSE "false",
                                 db.ciphers[cid].user_uuid)
         IN Out("Ok", db2, <<>>, <<>>)

\* put_cipher_partial (post_cipher_partial): the folder and the favorite
\* flag of the requester; data.favorite is a bool
put_cipher_partial(db, cid, data, u) ==
    IF cid \notin DOMAIN db.ciphers THEN Err("CipherNotFound", db)
    ELSE IF data.folder_id # None /\ ~FolderOfUser(db, data.folder_id, u)
    THEN Err("InvalidFolder", db)
    ELSE LET db1 == move_to_folder(db, cid, data.folder_id, u)
             db2 == set_favorite(db1, cid,
                                 IF data.favorite THEN "true" ELSE "false", u)
         IN Out("Ok", db2, <<>>, <<>>)

\* the loop of move_cipher_selected: the ids one by one
RECURSIVE move_ciphers(_, _, _, _)
move_ciphers(db, ids, folder_id, u) ==
    IF ids = <<>> THEN Out("Ok", db, <<>>, <<>>)
    ELSE LET cid == Head(ids) IN
         IF cid \notin DOMAIN db.ciphers THEN Err("CipherNotFound", db)
         ELSE IF ~is_accessible_to_user(db.ciphers[cid], cid, u, db.cc)
         THEN Err("NotAccessible", db)
         ELSE LET rest == move_ciphers(move_to_folder(db, cid, folder_id, u),
                                       Tail(ids), folder_id, u)
              IN Out(rest.res, rest.db, <<>>,
                     << [kind |-> "cipher", ut |-> "SyncCipherUpdate",
                         id |-> cid] >> \o rest.notifs)

\* the move that takes the posted folder as it is
move_cipher_selected_AnyFolder(db, ids, folder_id, u) ==
    move_ciphers(db, ids, folder_id, u)

\* move_cipher_selected (move_cipher_selected_put)
move_cipher_selected(db, ids, folder_id, u) ==
    IF folder_id # None /\ ~FolderOfUser(db, folder_id, u)
    THEN Err("InvalidFolder", db)
    ELSE move_ciphers(db, ids, folder_id, u)

\* the fold that keeps the most restrictive read_only flag
RECURSIVE CombineGroupGrants_Restrictive(_, _)
CombineGroupGrants_Restrictive(combined_permissions, rows) ==
    IF rows = <<>> THEN combined_permissions
    ELSE LET cg == Head(rows)
             key == cg.collections_uuid
         IN CombineGroupGrants_Restrictive(
                IF key \in DOMAIN combined_permissions
                THEN [combined_permissions EXCEPT
                         ![key].read_only = @ \/ cg.read_only,
                         ![key].hide_passwords = @ /\ cg.hide_passwords,
                         ![key].manage = @ \/ cg.manage]
                ELSE (key :> cg) @@ combined_permissions,
                Tail(rows))

\* the fold of CipherSyncData::new over the CollectionGroup rows of the
\* user, in the order the query returns them: the first row of a collection
\* is inserted, a later one is combined into it
RECURSIVE CombineGroupGrants(_, _)
CombineGroupGrants(combined_permissions, rows) ==
    IF rows = <<>> THEN combined_permissions
    ELSE LET cg == Head(rows)
             key == cg.collections_uuid
         IN CombineGroupGrants(
                IF key \in DOMAIN combined_permissions
                THEN [combined_permissions EXCEPT
                         ![key].read_only = @ /\ cg.read_only,
                         ![key].hide_passwords = @ /\ cg.hide_passwords,
                         ![key].manage = @ \/ cg.manage]
                ELSE (key :> cg) @@ combined_permissions,
                Tail(rows))

\* the snapshot with the folders and favorites of the user in every scope
CipherSyncData_new_AnyScope(db, u, sync_type, rows) ==
    [cipher_folders |->
        [cid \in {a[2] : a \in {b \in db.fc : b[1] = u}} |->
            CHOOSE f \in FolderIds : <<u, cid, f>> \in db.fc],
     cipher_favorites |-> {a[2] : a \in {b \in db.fav : b[1] = u}},
     user_collections_groups |->
        IF config.org_groups_enabled THEN CombineGroupGrants(<< >>, rows)
        ELSE << >>]

\* CipherSyncData::new, the maps of this model: rows is what
\* CollectionGroup::find_by_user returns
CipherSyncData_new(db, u, sync_type, rows) ==
    [cipher_folders |->
        IF sync_type = "User"
        THEN [cid \in {a[2] : a \in {b \in db.fc : b[1] = u}} |->
                 CHOOSE f \in FolderIds : <<u, cid, f>> \in db.fc]
        ELSE << >>,
     cipher_favorites |->
        IF sync_type = "User"
        THEN {a[2] : a \in {b \in db.fav : b[1] = u}}
        ELSE {},
     user_collections_groups |->
        IF config.org_groups_enabled THEN CombineGroupGrants(<< >>, rows)
        ELSE << >>]

----------------------------------------------------------------------------
(* Requests *)

RevDates ==
    {[kind |-> "none", t |-> 0], [kind |-> "bad", t |-> 0]} \cup
    {[kind |-> "ok", t |-> t] : t \in 0..MaxTime}

\* CipherData: notes is the length of the notes (-1: no notes), payloads the
\* set of types whose payload object is present, attachments2 the posted
\* attachment ids in iteration order.  At most one of the checks that follow
\* the ownership step fails in a request.
CipherDataOf(orgs, revs, notes, folder_ids, payloads, favs) ==
    {d \in [organization_id : orgs,
            last_known_revision_date : revs,
            notes : notes,
            folder_id : folder_ids,
            atype : {1, 6},
            payloads : payloads,
            attachments2 : {<<>>},
            favorite : favs] :
        (IF d.notes > MaxNoteSize THEN 1 ELSE 0) +
        (IF d.folder_id # None THEN 1 ELSE 0) +
        (IF d.atype = 6 THEN 1 ELSE 0) +
        (IF d.payloads = {} THEN 1 ELSE 0) <= 1}

\* update requests: every revision date
CipherDataSet ==
    CipherDataOf(Orgs \cup {None}, RevDates, {-1, MaxNoteSize + 1}, {None},
                 {{1}}, {"None"})

\* share requests: no date, a date that does not parse, the oldest and the
\* newest date
ShareDataSet ==
    CipherDataOf(Orgs \cup {None},
                 {r \in RevDates : r.t \in {0, MaxTime} /\ r.kind # "bad"},
                 {-1}, {None}, {{1}}, {"None"})

\* requests that create a cipher: the revision date is dropped by the handler
NewCipherDataSet ==
    CipherDataOf(Orgs \cup {None}, {[kind |-> "none", t |-> 0]},
                 {-1, MaxNoteSize + 1}, {None}, {{1}}, {"None"})

\* collection_ids of a share request, in posted order
CollectionIdLists ==
    {<<>>, <<"c1">>, <<"c2">>, <<"c3">>, <<"c1", "c3">>}

\* rows can be created while the generator has ids left
CanCreate(db, n) == Cardinality(id_pool \ DOMAIN db.ciphers) >= n

\* import requests: at most MaxImport items
MaxImport == 1

ImportDataSet ==
    CipherDataOf({None, "o1"}, {r \in RevDates : r.t = 0 /\ r.kind # "bad"},
                 {-1}, {None}, {{1}}, {"None"})

SeqsUpTo(S, n) == UNION {[1..m -> S] : m \in 0..n}

\* imports without folders
ImportSet ==
    [ciphers : SeqsUpTo(ImportDataSet, MaxImport), folders : {<<>>},
     folder_relationships : {<<>>}]

----------------------------------------------------------------------------
(* Initial state and actions *)

NoData == [organization_id |-> None, rev |-> "none"]

\* what is kept of a request's CipherData: the declared organization and,
\* where the revision date is looked at, the kind of date
Kept(data) == [organization_id |-> data.organization_id, rev |-> "n/a"]

KeptWithDate(data) == [organization_id |-> data.organization_id,
                       rev |-> data.last_known_revision_date.kind]

KeptAs(data, dated) == IF dated THEN KeptWithDate(data) ELSE Kept(data)

NoLast == [op |-> "none", user |-> None, cid |-> None, data |-> NoData,
           res |-> "none", events |-> <<>>, notifs |-> <<>>]

\* u1 owns o1; u2 is a plain user of o1 and o2, with collection grants
InitMembers ==
    ( <<"u1", "o1">> :> [atype |-> "Owner", access_all |-> TRUE] ) @@
    ( <<"u2", "o1">> :> [atype |-> "User", access_all |-> FALSE] ) @@
    ( <<"u2", "o2">> :> [atype |-> "User", access_all |-> FALSE] )

InitWorld ==
    /\ ciphers = << >>
    /\ collections_ciphers = {}
    /\ attachments = << >>
    /\ folders_ciphers = {}
    /\ favorites = {}
    /\ folders = ("f1" :> "u1") @@ ("f2" :> "u2")
    /\ members = InitMembers
    /\ policies = {}
    /\ last = NoLast
    /\ inflight = << >>

\* no attachment limit is configured unless the administrator sets one
NoLimits == [user_attachment_limit |-> NoneI64,
             org_attachment_limit |-> NoneI64,
             org_groups_enabled |-> FALSE]

Init ==
    InitWorld /\ now = MaxTime /\ id_pool = {"k1"} /\ config = NoLimits

\* the database and the answer after a handler has run
Written(out, op, u, cid, data) ==
    /\ ciphers' = out.db.ciphers
    /\ collections_ciphers' = out.db.cc
    /\ attachments' = out.db.atts
    /\ folders_ciphers' = out.db.fc
    /\ favorites' = out.db.fav
    /\ folders' = out.db.folders
    /\ last' = [op |-> op, user |-> u, cid |-> cid, data |-> data,
                res |-> out.res, events |-> out.events, notifs |-> out.notifs]
    /\ UNCHANGED <<members, policies, now, id_pool, config>>

\* a request handled from its first read to its answer with no other
\* request in between
Apply(out, op, u, cid, data) ==
    Written(out, op, u, cid, data) /\ UNCHANGED inflight

PostCiphers(D) ==
    \E u \in Users, data \in D :
        /\ CanCreate(DB, 1)
        /\ Apply(post_ciphers(DB, data, u), "post_ciphers", u,
                 FreshCipherId(DB), Kept(data))

PutCipher(D, dated) ==
    \E u \in Users, cid \in id_pool, data \in D :
        Apply(put_cipher(DB, cid, data, u), "put_cipher", u, cid,
              KeptAs(data, dated))

ShareCipher(D, L, dated) ==
    \E u \in Users, cid \in id_pool, data \in D, cols \in L :
        Apply(share_cipher_by_uuid(DB, cid, data, cols, u), "share_cipher",
              u, cid, KeptAs(data, dated))

PostCiphersCreate(D, L) ==
    \E u \in Users, data \in D, cols \in L :
        /\ CanCreate(DB, 1)
        /\ Apply(post_ciphers_create(DB, data, cols, u),
                 "post_ciphers_create", u, FreshCipherId(DB), Kept(data))

CollectionsUpdate ==
    \E u \in Users, cid \in id_pool, posted \in SUBSET Collections,
       admin \in BOOLEAN :
        \E order \in symmetric_difference(posted,
                            CurrentCollections(DB, cid, u, admin)) :
            Apply(post_collections_update(DB, cid, posted, order, u, admin),
                  IF admin THEN "post_collections_admin"
                  ELSE "post_collections_update", u, cid, NoData)

DeleteCipher(softs) ==
    \E u \in Users, cid \in id_pool, soft \in softs :
        Apply(delete_cipher_by_uuid(DB, cid, u, soft), "delete_cipher", u, cid,
              NoData)

Import(I) ==
    \E u \in Users, imp \in I :
        /\ CanCreate(DB, Len(imp.ciphers))
        /\ Apply(post_ciphers_import(DB, imp, u), "post_ciphers_import", u,
                 None, NoData)

\* an organization's PersonalOwnership policy is switched on or off
TogglePolicy ==
    /\ \E o \in {"o1"} :
          policies' = IF o \in policies THEN policies \ {o}
                      ELSE policies \cup {o}
    /\ last' = NoLast
    /\ UNCHANGED <<ciphers, collections_ciphers, attachments, folders_ciphers,
                   favorites, folders, members, now, id_pool, config,
                   inflight>>

Next ==
    \/ PostCiphers(NewCipherDataSet)
    \/ PutCipher(CipherDataSet, FALSE)
    \/ ShareCipher(ShareDataSet, CollectionIdLists, FALSE)
    \/ PostCiphersCreate(NewCipherDataSet, CollectionIdLists)
    \/ CollectionsUpdate
    \/ DeleteCipher({FALSE})
    \/ Import(ImportSet)
    \/ TogglePolicy

Spec == Init /\ [][Next]_vars

----------------------------------------------------------------------------
(* The pipeline with a running clock *)

\* update and share requests with every revision date, for personal ciphers
\* and ciphers of o1
TimedDataSet ==
    CipherDataOf({None, "o1"}, RevDates, {-1}, {None}, {{1}}, {"None"})

TimedNewDataSet ==
    CipherDataOf({None, "o1"}, {[kind |-> "none", t |-> 0]}, {-1}, {None},
                 {{1}}, {"None"})

TimedCollectionIdLists == {<<>>, <<"c1">>}

Tick ==
    /\ now < MaxTime
    /\ now' = now + 1
    /\ last' = NoLast
    /\ UNCHANGED <<ciphers, collections_ciphers, attachments, folders_ciphers,
                   favorites, folders, members, policies, id_pool, config,
                   inflight>>

InitTime == InitWorld /\ now = 0 /\ id_pool = {"k1"} /\ config = NoLimits

NextTime ==
    \/ Tick
    \/ PostCiphers(TimedNewDataSet)
    \/ PutCipher(TimedDataSet, TRUE)
    \/ ShareCipher(TimedDataSet, TimedCollectionIdLists, TRUE)
    \/ TogglePolicy

SpecTime == InitTime /\ [][NextTime]_vars

----------------------------------------------------------------------------
(* Attachment uploads under configured limits *)

\* limits in KiB: none, disabled, negative, one KiB, and one whose byte
\* count does not fit the integer width
LimitOptions ==
    {NoneI64, SomeI64(0), SomeI64(-1), SomeI64(1),
     SomeI64(MaxI64 \div 1024 + 1)}

\* declared and received sizes in bytes, around the one-KiB limit
UploadSizes == {0, 1, 1023, 1024, 1025}

Uploads == [size : UploadSizes, has_name : {TRUE}, has_key : {TRUE}]

QuotaNewDataSet ==
    CipherDataOf({None, "o1"}, {[kind |-> "none", t |-> 0]}, {-1}, {None},
                 {{1}}, {"None"})

\* what is kept of an attachment request
KeptUpload(aid, size) ==
    [organization_id |-> None, rev |-> "n/a", attachment |-> aid,
     size |-> size]

CanCreateAttachment(db) == AttachmentIds \ DOMAIN db.atts # {}

PostAttachmentV2 ==
    \E u \in Users, cid \in id_pool, size \in UploadSizes :
        /\ CanCreateAttachment(DB)
        /\ Apply(post_attachment_v2(DB, cid, size, u), "post_attachment_v2",
                 u, cid, KeptUpload(FreshAttachmentId(DB), size))

PostAttachmentV2Data ==
    \E u \in Users, cid \in id_pool, aid \in AttachmentIds,
       upload \in Uploads :
        Apply(post_attachment_v2_data(DB, cid, aid, upload, u, config),
              "post_attachment_v2_data", u, cid,
              KeptUpload(aid, upload.size))

PostAttachment ==
    \E u \in Users, cid \in id_pool, upload \in Uploads :
        /\ CanCreateAttachment(DB)
        /\ Apply(post_attachment(DB, cid, upload, u, config),
                 "post_attachment", u, cid,
                 KeptUpload(FreshAttachmentId(DB), upload.size))

DeleteAttachment ==
    \E u \in Users, cid \in id_pool, aid \in AttachmentIds :
        Apply(delete_cipher_attachment_by_id(DB, cid, aid, u),
              "delete_attachment", u, cid, KeptUpload(aid, 0))

InitQuota ==
    /\ InitWorld
    /\ now = MaxTime
    /\ id_pool = {"k1"}
    /\ config \in [user_attachment_limit : LimitOptions,
                   org_attachment_limit : {NoneI64, SomeI64(1)},
                   org_groups_enabled : {FALSE}]

NextQuota ==
    \/ PostCiphers(QuotaNewDataSet)
    \/ PostAttachmentV2
    \/ PostAttachmentV2Data
    \/ PostAttachment
    \/ DeleteAttachment

SpecQuota == InitQuota /\ [][NextQuota]_vars

----------------------------------------------------------------------------
(* The v2 upload around the size band and the integer width *)

\* limits in KiB: none, one KiB, one whose byte count does not fit the
\* integer width, and the most negative one whose byte count fits
BandLimitOptions ==
    {NoneI64, SomeI64(1), SomeI64(MaxI64 \div 1024 + 1),
     SomeI64(-((MaxI64 + 1) \div 1024))}

\* sizes declared at reservation (fileSize of AttachmentRequestData)
DeclaredSizes == {-1, 0, LEEWAY + 1, MaxI64}

\* received byte counts (data.data.len()), around the bands of the declared
\* sizes 0 and LEEWAY + 1
ReceivedSizes ==
    {0, 1, LEEWAY, LEEWAY + 1, 2 * LEEWAY + 1, 2 * LEEWAY + 2}

BandUploads == [size : ReceivedSizes, has_name : {TRUE}, has_key : {TRUE}]

BandNewDataSet ==
    CipherDataOf({None}, {[kind |-> "none", t |-> 0]}, {-1}, {None},
                 {{1}}, {"None"})

\* POST /ciphers/<cipher_id>/attachment/v2 with a declared size of S
ReserveAttachment(S) ==
    \E u \in Users, cid \in id_pool, size \in S :
        /\ CanCreateAttachment(DB)
        /\ Apply(post_attachment_v2(DB, cid, size, u), "post_attachment_v2",
                 u, cid, KeptUpload(FreshAttachmentId(DB), size))

\* POST /ciphers/<cipher_id>/attachment/<attachment_id> with an upload of U
UploadAttachmentData(U) ==
    \E u \in Users, cid \in id_pool, aid \in AttachmentIds, upload \in U :
        Apply(post_attachment_v2_data(DB, cid, aid, upload, u, config),
              "post_attachment_v2_data", u, cid,
              KeptUpload(aid, upload.size))

InitBand ==
    /\ InitWorld
    /\ now = MaxTime
    /\ id_pool = {"k1"}
    /\ config \in [user_attachment_limit : BandLimitOptions,
                   org_attachment_limit : {NoneI64},
                   org_groups_enabled : {FALSE}]

NextBand ==
    \/ PostCiphers(BandNewDataSet)
    \/ ReserveAttachment(DeclaredSizes)
    \/ UploadAttachmentData(BandUploads)
    \/ DeleteAttachment

SpecBand == InitBand /\ [][NextBand]_vars

----------------------------------------------------------------------------
(* Attachments of two ciphers *)

\* the attachments2 map of an update in the orders a HashMap may yield it
RekeyLists == {<<"a1">>, <<"a1", "a2">>, <<"a2", "a1">>}

\* updates that carry attachment re-key data
RekeyDataSet ==
    {[d EXCEPT !.attachments2 = ids] :
        d \in {x \in CipherDataOf({None}, {[kind |-> "none", t |-> 0]}, {-1},
                                  {None}, {{1}}, {"None"}) : x.atype = 1},
        ids \in RekeyLists}

AttachNewDataSet ==
    {x \in CipherDataOf({None}, {[kind |-> "none", t |-> 0]}, {-1}, {None},
                        {{1}}, {"None"}) : x.atype = 1}

\* uploads of one byte
SmallUploads == [size : {1}, has_name : {TRUE}, has_key : {TRUE}]

\* POST /ciphers/<cipher_id>/attachment with an upload of U
UploadAttachment(U) ==
    \E u \in Users, cid \in id_pool, upload \in U :
        /\ CanCreateAttachment(DB)
        /\ Apply(post_attachment(DB, cid, upload, u, config),
                 "post_attachment", u, cid,
                 KeptUpload(FreshAttachmentId(DB), upload.size))

GetAttachment ==
    \E u \in Users, cid \in id_pool, aid \in AttachmentIds :
        Apply(get_attachment(DB, cid, aid, u), "get_attachment", u, cid,
              KeptUpload(aid, 0))

\* what is kept of an update with re-key data: the posted ids
KeptRekey(data) ==
    [organization_id |-> data.organization_id, rev |-> "n/a",
     attachments2 |-> data.attachments2]

RekeyCipher ==
    \E u \in Users, cid \in id_pool, data \in RekeyDataSet :
        Apply(put_cipher(DB, cid, data, u), "put_cipher", u, cid,
              KeptRekey(data))

InitAttach ==
    /\ InitWorld
    /\ now = MaxTime
    /\ id_pool = {"k1", "k2"}
    /\ config = NoLimits

NextAttach ==
    \/ PostCiphers(AttachNewDataSet)
    \/ UploadAttachment(SmallUploads)
    \/ ReserveAttachment({1})
    \/ UploadAttachmentData(SmallUploads)
    \/ GetAttachment
    \/ DeleteAttachment
    \/ RekeyCipher

SpecAttach == InitAttach /\ [][NextAttach]_vars

----------------------------------------------------------------------------
(* The audit log of one cipher, personal or of an organization *)

\* creations and updates declaring no organization or o1
AuditDataSet ==
    {x \in CipherDataOf({None, "o1"}, {[kind |-> "none", t |-> 0]}, {-1},
                        {None}, {{1}}, {"None"}) : x.atype = 1}

RestoreCipher ==
    \E u \in Users, cid \in id_pool :
        Apply(restore_cipher_by_uuid(DB, cid, u), "restore_cipher", u, cid,
              NoData)

NextAudit ==
    \/ PostCiphers(AuditDataSet)
    \/ PutCipher(AuditDataSet, FALSE)
    \/ UploadAttachment(SmallUploads)
    \/ ReserveAttachment({1})
    \/ UploadAttachmentData(SmallUploads)
    \/ DeleteAttachment
    \/ DeleteCipher({TRUE, FALSE})
    \/ RestoreCipher
    \/ ShareCipher(AuditDataSet, TimedCollectionIdLists, FALSE)
    \/ CollectionsUpdate

SpecAudit == Init /\ [][NextAudit]_vars

----------------------------------------------------------------------------
(* Bulk requests on two ciphers *)

\* the items of an import: personal or for o1, a valid or an invalid type,
\* each with a revision date older than every stored cipher
BulkImportDataSet ==
    CipherDataOf({None, "o1"}, {[kind |-> "ok", t |-> 0]}, {-1}, {None},
                 {{1}}, {"None"})

\* imports of as many items as there are cipher ids, without folders
BulkImportSet ==
    [ciphers : SeqsUpTo(BulkImportDataSet, Cardinality(CipherIds)),
     folders : {<<>>}, folder_relationships : {<<>>}]

\* the ids of a bulk delete or restore, in posted order
CipherIdLists == SeqsUpTo(id_pool, Cardinality(id_pool))

\* what is kept of a bulk request: the posted ids or the number of items
KeptBulk(ids, soft) ==
    [organization_id |-> None, rev |-> "n/a", ids |-> ids, soft |-> soft]

ImportCiphersBulk ==
    \E u \in Users, imp \in BulkImportSet :
        /\ CanCreate(DB, Len(imp.ciphers))
        /\ Apply(post_ciphers_import(DB, imp, u), "post_ciphers_import", u,
                 None, KeptBulk(imp.ciphers, FALSE))

DeleteCiphers ==
    \E u \in Users, ids \in CipherIdLists, soft \in BOOLEAN :
        Apply(delete_multiple_ciphers(DB, ids, u, soft), "delete_ciphers",
              u, None, KeptBulk(ids, soft))

RestoreCiphers ==
    \E u \in Users, ids \in CipherIdLists :
        Apply(restore_multiple_ciphers(DB, ids, u), "restore_ciphers", u,
              None, KeptBulk(ids, FALSE))

InitBulk ==
    /\ InitWorld
    /\ now = MaxTime
    /\ id_pool = CipherIds
    /\ config = NoLimits

NextBulk ==
    \/ ImportCiphersBulk
    \/ DeleteCiphers
    \/ RestoreCiphers

SpecBulk == InitBulk /\ [][NextBulk]_vars

----------------------------------------------------------------------------
(* Specification: memberships and groups change while ciphers are read and
   written *)

\* the memberships an administrator can give a user
MembershipOptions ==
    {[atype |-> "User", access_all |-> FALSE],
     [atype |-> "Owner", access_all |-> TRUE]}

\* the memberships the administrators change: u2 stays a plain user of o2
ManagedMemberships == {<<"u1", "o1">>, <<"u1", "o2">>, <<"u2", "o1">>}

\* creations and updates declaring no organization, o1 or o2
AccessDataSet ==
    {x \in CipherDataOf(Orgs \cup {None}, {[kind |-> "none", t |-> 0]}, {-1},
                        {None}, {{1}}, {"None"}) : x.atype = 1}

\* the memberships after the administrator has given u the membership m
\* in o
MembersWith(u, o, m) == (<<u, o>> :> m) @@ members

\* the memberships after the administrator has removed u from o
MembersWithout(u, o) ==
    [k \in DOMAIN members \ {<<u, o>>} |-> members[k]]

\* an administrator invites a user, changes a membership or removes it
SetMembership ==
    /\ \E u \in Users, o \in Orgs :
          /\ <<u, o>> \in ManagedMemberships
          /\ \/ \E m \in MembershipOptions : members' = MembersWith(u, o, m)
             \/ members' = MembersWithout(u, o)
          /\ members' # members
    /\ last' = NoLast
    /\ UNCHANGED <<ciphers, collections_ciphers, attachments, folders_ciphers,
                   favorites, folders, policies, now, id_pool, config,
                   inflight>>

GetCipher ==
    \E u \in Users, cid \in id_pool :
        Apply(get_cipher(DB, cid, u), "get_cipher", u, cid, NoData)

InitAccess ==
    /\ InitWorld
    /\ now = MaxTime
    /\ id_pool = {"k1"}
    /\ config \in [user_attachment_limit : {NoneI64},
                   org_attachment_limit : {NoneI64},
                   org_groups_enabled : BOOLEAN]

NextAccess ==
    \/ PostCiphersCreate(AccessDataSet, CollectionIdLists)
    \/ PutCipher(AccessDataSet, FALSE)
    \/ CollectionsUpdate
    \/ GetCipher
    \/ SetMembership

SpecAccess == InitAccess /\ [][NextAccess]_vars

----------------------------------------------------------------------------
(* Specification: one sync snapshot over the group grants of a user *)

\* a user has at most MaxGrants group grants
MaxGrants == 3

\* CollectionGroup rows: g1 and g2 grant on c2, g3 on c1 or c2
GroupRows ==
    {r \in [collections_uuid : {"c1", "c2"}, groups_uuid : DOMAIN groups,
            read_only : BOOLEAN, hide_passwords : BOOLEAN,
            manage : BOOLEAN] :
        r.collections_uuid = "c1" => r.groups_uuid = "g3"}

\* what CollectionGroup::find_by_user can return: at most one row of a
\* group, in any order
GroupRowLists ==
    UNION {{rows \in [1..Len(gs) -> GroupRows] :
               \A i \in 1..Len(gs) : rows[i].groups_uuid = gs[i]} :
           gs \in {g \in SeqsUpTo(DOMAIN groups, MaxGrants) :
                      \A i, j \in DOMAIN g : g[i] = g[j] => i = j}}

SyncTypes == {"User", "Organization"}

\* the snapshot of a sync request is kept with the request
KeptSync(sync_type, rows, snapshot) ==
    [organization_id |-> None, rev |-> "n/a", sync_type |-> sync_type,
     rows |-> rows, snapshot |-> snapshot]

\* a sync request builds the snapshot; it writes nothing
Sync(R) ==
    \E u \in Users, sync_type \in SyncTypes, rows \in R :
        Apply(Out("Ok", DB, <<>>, <<>>), "sync", u, None,
              KeptSync(sync_type, rows,
                       CipherSyncData_new(DB, u, sync_type, rows)))

InitSync ==
    /\ InitWorld
    /\ now = MaxTime
    /\ id_pool = {"k1"}
    /\ config \in [user_attachment_limit : {NoneI64},
                   org_attachment_limit : {NoneI64},
                   org_groups_enabled : BOOLEAN]

\* one sync request is followed: it leaves the database as it was, so
\* another one would start from the same database
NextSync == last.op = "none" /\ Sync(GroupRowLists)

SpecSync == InitSync /\ [][NextSync]_vars

----------------------------------------------------------------------------
(* Specification: folders and favorites of two users on one cipher *)

\* creations and updates, personal or for o1, with a folder of either user
\* or none, and with the favorite flag set, cleared or absent
FolderDataSet ==
    {x \in CipherDataOf({None, "o1"}, {[kind |-> "none", t |-> 0]}, {-1},
                        {None, "f1", "f2"}, {{1}}, {"None", "true", "false"}) :
        x.atype = 1}

\* PartialCipherData
PartialDataSet == [folder_id : {None, "f1", "f2"}, favorite : BOOLEAN]

KeptFolder(folder_id, ids) ==
    [organization_id |-> None, rev |-> "n/a", folder_id |-> folder_id,
     ids |-> ids]

PutCipherPartial ==
    \E u \in Users, cid \in id_pool, data \in PartialDataSet :
        Apply(put_cipher_partial(DB, cid, data, u), "put_cipher_partial", u,
              cid, KeptFolder(data.folder_id, <<cid>>))

MoveCiphers ==
    \E u \in Users, ids \in CipherIdLists, folder_id \in {None, "f1", "f2"} :
        Apply(move_cipher_selected(DB, ids, folder_id, u),
              "move_cipher_selected", u, None, KeptFolder(folder_id, ids))

NextFolders ==
    \/ PostCiphers(FolderDataSet)
    \/ PutCipher(FolderDataSet, FALSE)
    \/ ShareCipher(FolderDataSet, {<<"c1">>}, FALSE)
    \/ PutCipherPartial
    \/ MoveCiphers
    \/ Sync({<<>>})

SpecFolders == Init /\ [][NextFolders]_vars

----------------------------------------------------------------------------
(* Specification: two updates of one cipher that run at the same time *)

\* the requests that can be in flight together
RequestIds == {"r1", "r2"}

\* updates of a personal cipher with a revision date that parses, or none
RaceDataSet ==
    {x \in CipherDataOf({None}, {r \in RevDates : r.kind # "bad"}, {-1},
                        {None}, {{1}}, {"None"}) : x.atype = 1}

RaceNewDataSet ==
    {x \in CipherDataOf({None}, {[kind |-> "none", t |-> 0]}, {-1}, {None},
                        {{1}}, {"None"}) : x.atype = 1}

\* put_cipher up to the call of update_cipher_from_data: the handler has
\* read the cipher row into memory and the requester may write it.  (A
\* request that fails here is answered at once and changes nothing.)
BeginUpdate ==
    \E r \in RequestIds \ DOMAIN inflight, u \in Users,
       cid \in DOMAIN ciphers, data \in RaceDataSet :
        /\ is_write_accessible_to_user(ciphers[cid], cid, u,
                                       collections_ciphers)
        /\ inflight' = (r :> [user |-> u, cid |-> cid, data |-> data,
                              cipher |-> ciphers[cid]]) @@ inflight
        /\ UNCHANGED <<ciphers, collections_ciphers, attachments,
                       folders_ciphers, favorites, folders, members, policies,
                       now, id_pool, config, last>>

\* the outcome with the cipher row read again when the pipeline starts
FinishOutcome_Reloaded(r) ==
    update_cipher_from_data(DB, ciphers[inflight[r].cid], inflight[r].cid,
                            inflight[r].data, inflight[r].user, NoShare,
                            "SyncCipherUpdate")

\* the outcome of update_cipher_from_data for the request in flight, run
\* on the cipher as the handler read it and on the database as it is now
FinishOutcome(r) ==
    update_cipher_from_data(DB, inflight[r].cipher, inflight[r].cid,
                            inflight[r].data, inflight[r].user, NoShare,
                            "SyncCipherUpdate")

\* put_cipher from the call of update_cipher_from_data to the answer
FinishUpdate ==
    \E r \in DOMAIN inflight :
        /\ Written(FinishOutcome(r), "put_cipher", inflight[r].user,
                   inflight[r].cid, KeptWithDate(inflight[r].data))
        /\ inflight' = [k \in DOMAIN inflight \ {r} |-> inflight[k]]

NextRace ==
    \/ Tick
    \/ PostCiphers(RaceNewDataSet)
    \/ BeginUpdate
    \/ FinishUpdate

SpecRace == InitTime /\ [][NextRace]_vars

----------------------------------------------------------------------------
(* Ownership *)

\* exactly one of owner user / owner organization is set
ExclusiveOwner(c) == (c.user_uuid = None) # (c.organization_uuid = None)

\* the row is owned as the request declares: by the declared organization
\* with no owner user, or by the requester with no organization
OwnedAsDeclared(c, data, u) ==
    IF data.organization_id # None
    THEN c.organization_uuid = data.organization_id /\ c.user_uuid = None
    ELSE c.user_uuid = u /\ c.organization_uuid = None

\* C1: every stored cipher has exactly one owner, and after every successful
\* create, update, clone, share or import request that goes through
\* update_cipher_from_data the stored cipher is owned by the declared
\* organization with the owner user cleared, or by the requester with no
\* organization.
C1_OwnershipExclusive ==
    /\ \A cid \in DOMAIN ciphers : ExclusiveOwner(ciphers[cid])
    /\ \A u \in Users :
        /\ \A cid \in id_pool, data \in CipherDataSet :
             LET out == put_cipher(DB, cid, data, u) IN
             out.res = "Ok" => OwnedAsDeclared(out.db.ciphers[cid], data, u)
        /\ \A cid \in id_pool, data \in ShareDataSet,
              cols \in CollectionIdLists :
             LET out == share_cipher_by_uuid(DB, cid, data, cols, u) IN
             out.res = "Ok" => OwnedAsDeclared(out.db.ciphers[cid], data, u)
        /\ CanCreate(DB, 1) =>
             /\ \A data \in NewCipherDataSet :
                  LET out == post_ciphers(DB, data, u) IN
                  out.res = "Ok" =>
                      OwnedAsDeclared(out.db.ciphers[FreshCipherId(DB)],
                                      data, u)
             /\ \A data \in NewCipherDataSet, cols \in CollectionIdLists :
                  LET out == post_ciphers_create(DB, data, cols, u) IN
                  out.res = "Ok" =>
                      OwnedAsDeclared(out.db.ciphers[FreshCipherId(DB)],
                                      data, u)
        /\ \A imp \in ImportSet :
             CanCreate(DB, Len(imp.ciphers)) =>
                LET out == post_ciphers_import(DB, imp, u) IN
                out.res = "Ok" =>
                    \A cid \in DOMAIN out.db.ciphers \ DOMAIN ciphers :
                        \E i \in 1..Len(imp.ciphers) :
                            OwnedAsDeclared(out.db.ciphers[cid],
                                            imp.ciphers[i], u)

\* a personal cipher has just been moved into the declared organization
C1_Witness ==
    /\ last.op \in {"put_cipher", "share_cipher"}
    /\ last.res = "Ok"
    /\ last.data.organization_id # None
    /\ last.cid \in DOMAIN ciphers
    /\ ciphers[last.cid].organization_uuid = last.data.organization_id
    /\ ciphers[last.cid].user_uuid = None
    /\ \E i \in 1..Len(last.events) : last.events[i].type = "CipherShared"

\* the errors of the checks that come before the organization-mismatch check
BeforeMismatch ==
    {"CipherNotFound", "NotWriteAccessible", "InvalidCollection",
     "NoRightsCollection", "PolicyViolation", "OutOfDate"}

\* the update and share requests on organization-owned ciphers that declare
\* no organization or another one, with their outcomes
MismatchedOutcomes ==
    {out \in
        UNION {
          {put_cipher(DB, cid, data, u) :
              data \in {d \in CipherDataSet :
                          d.organization_id # ciphers[cid].organization_uuid}}
          \cup
          UNION {{share_cipher_by_uuid(DB, cid, data, cols, u) :
                      cols \in CollectionIdLists} :
                  data \in {d \in ShareDataSet :
                          d.organization_id # ciphers[cid].organization_uuid}}
          : u \in Users,
            cid \in {k \in DOMAIN ciphers :
                        ciphers[k].organization_uuid # None} }
     : TRUE}

\* C2 as stated, for requesters with write access: an update or share
\* request on a cipher of organization O that declares no organization or
\* another one is answered with the organization-mismatch error.
C2_Original ==
    ( /\ last.op \in {"put_cipher", "share_cipher"}
      /\ last.cid \in DOMAIN ciphers
      /\ ciphers[last.cid].organization_uuid # None
      /\ ciphers[last.cid].organization_uuid # last.data.organization_id
      /\ is_write_accessible_to_user(ciphers[last.cid], last.cid, last.user,
                                     collections_ciphers) )
    => last.res = "OrgMismatch"

\* C2: for a cipher owned by organization O, every update or share request
\* whose declared organization is absent or differs from O is rejected and
\* leaves the cipher row as it was, so the cipher stays owned by O; the error
\* is the organization-mismatch error unless an earlier check (write access,
\* the share path's collection checks, the personal-ownership policy, the
\* staleness check) has rejected the request.
C2_OrgImmutable ==
    \A out \in MismatchedOutcomes :
        /\ out.res # "Ok"
        /\ out.db.ciphers = ciphers
        /\ out.res \in BeforeMismatch \cup {"OrgMismatch"}

\* a request on an organization-owned cipher was rejected for the mismatch
C2_Witness ==
    /\ last.op \in {"put_cipher", "share_cipher"}
    /\ last.res = "OrgMismatch"
    /\ last.cid \in DOMAIN ciphers
    /\ ciphers[last.cid].organization_uuid # None
    /\ ciphers[last.cid].organization_uuid # last.data.organization_id

----------------------------------------------------------------------------
(* Stale writes *)

\* how far the stored updated_at is ahead of the request's revision date
Ahead(cid, data) ==
    ciphers[cid].updated_at - data.last_known_revision_date.t

\* update requests on stored ciphers whose revision date parses
DatedUpdates ==
    {r \in [u : Users, cid : DOMAIN ciphers, data : TimedDataSet] :
        r.data.last_known_revision_date.kind = "ok"}

\* C3 as stated, with any rejection counted: an update whose revision date
\* is more than one second behind updated_at is rejected and changes no
\* cipher; otherwise the staleness check lets it pass.
C3_Original ==
    \A r \in DatedUpdates :
        LET out == put_cipher(DB, r.cid, r.data, r.u) IN
        IF Ahead(r.cid, r.data) > TicksPerSecond
        THEN out.res # "Ok" /\ out.db.ciphers = ciphers
        ELSE out.res # "OutOfDate"

\* the errors of the checks that come before the staleness check
BeforeStaleness ==
    {"NotWriteAccessible", "InvalidCollection", "NoRightsCollection",
     "PolicyViolation"}

\* C3: for every update of a stored cipher (put_cipher, or a share request
\* carrying a revision date) whose revision date D parses: if updated_at is
\* two seconds or more ahead of D (the difference in whole seconds exceeds
\* one) the request is rejected and no cipher row changes, with the
\* out-of-date error unless the write-access, collection or policy check
\* rejected it first; if updated_at is less than two seconds ahead of D, or
\* behind it, the staleness check does not reject the request.
C3_StaleRejected ==
    \A r \in DatedUpdates :
        LET put == put_cipher(DB, r.cid, r.data, r.u)
            stale == Ahead(r.cid, r.data) >= 2 * TicksPerSecond
            share(cols) == share_cipher_by_uuid(DB, r.cid, r.data, cols, r.u)
        IN
        /\ stale => /\ put.res \in BeforeStaleness \cup {"OutOfDate"}
                    /\ put.db.ciphers = ciphers
        /\ ( /\ stale
             /\ is_write_accessible_to_user(ciphers[r.cid], r.cid, r.u,
                                            collections_ciphers)
             /\ ~(r.data.organization_id = None /\ is_applicable_to_user(r.u)) )
           => put.res = "OutOfDate"
        /\ ~stale => put.res # "OutOfDate"
        /\ \A cols \in TimedCollectionIdLists :
             /\ stale => /\ share(cols).res \in BeforeStaleness \cup {"OutOfDate"}
                         /\ share(cols).db.ciphers = ciphers
             /\ ~stale => share(cols).res # "OutOfDate"

\* an update was rejected as out of date, and the stored cipher is there
C3_Witness ==
    /\ last.op \in {"put_cipher", "share_cipher"}
    /\ last.res = "OutOfDate"
    /\ last.data.rev = "ok"
    /\ last.cid \in DOMAIN ciphers
    /\ ciphers[last.cid].updated_at >= 2 * TicksPerSecond

\* the request with a revision date that is not stale: the stored updated_at
FreshDate(data, cid) ==
    [data EXCEPT !.last_known_revision_date =
        [kind |-> "ok", t |-> ciphers[cid].updated_at]]

\* C4: an update request whose revision date does not parse, or that carries
\* none, has the outcome (answer, database, events and notifications) of the
\* same request with a fresh revision date; on the share path the answer and
\* the database are the same.
C4_UnparseableTolerated ==
    \A u \in Users, cid \in DOMAIN ciphers :
        \A data \in {d \in TimedDataSet :
                        d.last_known_revision_date.kind \in {"none", "bad"}} :
            /\ put_cipher(DB, cid, data, u) =
               put_cipher(DB, cid, FreshDate(data, cid), u)
            /\ put_cipher(DB, cid, data, u).res # "OutOfDate"
            /\ \A cols \in TimedCollectionIdLists :
                 LET a == share_cipher_by_uuid(DB, cid, data, cols, u)
                     b == share_cipher_by_uuid(DB, cid, FreshDate(data, cid),
                                               cols, u)
                 IN a.res = b.res /\ a.db = b.db /\ a.res # "OutOfDate"

\* an update with a date that does not parse has been accepted, two seconds
\* or more after the clock started
C4_Witness ==
    /\ last.op = "put_cipher"
    /\ last.data.rev = "bad"
    /\ last.res = "Ok"
    /\ now >= 2 * TicksPerSecond

----------------------------------------------------------------------------
(* Ownership transfer *)

\* the condition under which a cipher may be moved into organization o
TransferPermitted(u, o, shared, cipher, cid) ==
    /\ HasMember(u, o)
    /\ \/ shared
       \/ has_full_access(members[<<u, o>>])
       \/ is_write_accessible_to_user(cipher, cid, u, collections_ciphers)

PermissionErrors ==
    {"NoPermissionAddItem", "NoPermissionAddDirectly", "NotWriteAccessible",
     "NoRightsCollection"}

\* the other errors of the checks that come before the ownership step
BeforeOwnership ==
    {"InvalidCollection", "NoCollectionSelected", "OutOfDate", "NotesTooLong"}

\* ciphers without an organization
PersonalCiphers == {k \in DOMAIN ciphers : ciphers[k].organization_uuid = None}

\* the owner fields of every stored cipher
Owners(cs) ==
    [k \in DOMAIN cs |-> <<cs[k].user_uuid, cs[k].organization_uuid>>]

\* no stored cipher changed owner and no cipher of an organization was added
OwnershipUnchanged(out) ==
    \A k \in DOMAIN out.db.ciphers :
        IF k \in DOMAIN ciphers
        THEN Owners(out.db.ciphers)[k] = Owners(ciphers)[k]
        ELSE out.db.ciphers[k].organization_uuid = None

\* C5 as stated: a request to move a personal cipher into an organization
\* that is not permitted is answered with a permission error.
C5_Original ==
    ( /\ last.op \in {"put_cipher", "share_cipher"}
      /\ last.cid \in DOMAIN ciphers
      /\ ciphers[last.cid].organization_uuid = None
      /\ last.data.organization_id # None
      /\ ~TransferPermitted(last.user, last.data.organization_id,
                            last.op = "share_cipher", ciphers[last.cid],
                            last.cid) )
    => last.res \in PermissionErrors

\* one request of the update pipeline that declares an organization for a
\* cipher without one, as the pair of its outcome and whether it is permitted
TransferOutcomes ==
    UNION {
      UNION {
        {<<put_cipher(DB, cid, data, u),
           TransferPermitted(u, data.organization_id, FALSE, ciphers[cid], cid)>>
            : cid \in PersonalCiphers}
        \cup
        {<<share_cipher_by_uuid(DB, cid, data, cols, u),
           TransferPermitted(u, data.organization_id, TRUE, ciphers[cid], cid)>>
            : cid \in PersonalCiphers, cols \in CollectionIdLists}
        \cup
        (IF CanCreate(DB, 1)
         THEN {<<post_ciphers(DB, data, u),
                 TransferPermitted(u, data.organization_id, FALSE,
                                   NewCipher(data.atype), FreshCipherId(DB))>>}
              \cup
              {<<post_ciphers_create(DB, data, cols, u),
                 TransferPermitted(u, data.organization_id, TRUE,
                                   NewCipher(data.atype), FreshCipherId(DB))>>
                  : cols \in CollectionIdLists}
         ELSE {})
        : data \in {d \in NewCipherDataSet \cup ShareDataSet \cup CipherDataSet :
                       d.organization_id # None} }
      : u \in Users }

\* C5: a request that moves a cipher with no organization into organization
\* O succeeds only if the requester has a membership in O and the request
\* came through a share path, or the membership has full access, or the
\* requester has write access to the cipher; otherwise it is rejected and
\* the stored ownership is unchanged, with a permission error unless an
\* earlier check (the share path's collection checks, the staleness check,
\* the notes length) rejected it first.
C5_TransferAuthorized ==
    \A p \in TransferOutcomes :
        /\ p[1].res = "Ok" => p[2]
        /\ ~p[2] => /\ p[1].res \in PermissionErrors \cup BeforeOwnership
                    /\ OwnershipUnchanged(p[1])

\* a requester without membership in the declared organization was refused
\* at the ownership step, and the cipher is still the requester's
C5_Witness ==
    /\ last.op \in {"put_cipher", "share_cipher"}
    /\ last.res = "NoPermissionAddItem"
    /\ last.cid \in DOMAIN ciphers
    /\ ciphers[last.cid].user_uuid = last.user
    /\ ciphers[last.cid].organization_uuid = None
    /\ ~HasMember(last.user, last.data.organization_id)

----------------------------------------------------------------------------
(* Personal-ownership policy *)

\* the requests that declare no organization
Personal(D) == {d \in D : d.organization_id = None}

\* C6: while the personal-ownership policy applies to a user, every create,
\* update, clone and import request of that user that declares no
\* organization is rejected and no cipher is created or modified; deleting
\* the user's personal ciphers succeeds and sharing them into an
\* organization is not refused by the policy.
C6_PersonalOwnershipPolicy ==
    \A u \in {v \in Users : is_applicable_to_user(v)} :
        /\ \A cid \in id_pool, data \in Personal(CipherDataSet) :
             LET out == put_cipher(DB, cid, data, u) IN
             out.res # "Ok" /\ out.db.ciphers = ciphers
        /\ \A cid \in id_pool, data \in Personal(ShareDataSet),
              cols \in CollectionIdLists :
             LET out == share_cipher_by_uuid(DB, cid, data, cols, u) IN
             out.res # "Ok" /\ out.db.ciphers = ciphers
        /\ CanCreate(DB, 1) =>
             \A data \in Personal(NewCipherDataSet) :
                /\ post_ciphers(DB, data, u).res = "PolicyViolation"
                /\ post_ciphers(DB, data, u).db.ciphers = ciphers
                /\ \A cols \in CollectionIdLists :
                     LET out == post_ciphers_create(DB, data, cols, u) IN
                     out.res = "PolicyViolation" /\ out.db.ciphers = ciphers
        /\ \A imp \in ImportSet :
             CanCreate(DB, Len(imp.ciphers)) =>
                LET out == post_ciphers_import(DB, imp, u) IN
                out.res = "PolicyViolation" /\ out.db.ciphers = ciphers
        /\ \A cid \in {k \in PersonalCiphers : ciphers[k].user_uuid = u} :
             /\ \A soft \in BOOLEAN :
                  delete_cipher_by_uuid(DB, cid, u, soft).res = "Ok"
             /\ cid \notin DOMAIN delete_cipher_by_uuid(DB, cid, u, FALSE).db.ciphers
             /\ \A data \in ShareDataSet \ Personal(ShareDataSet),
                   cols \in CollectionIdLists :
                  share_cipher_by_uuid(DB, cid, data, cols, u).res
                      # "PolicyViolation"
             /\ \E data \in ShareDataSet, cols \in CollectionIdLists :
                  LET out == share_cipher_by_uuid(DB, cid, data, cols, u) IN
                  /\ out.res = "Ok"
                  /\ out.db.ciphers[cid].organization_uuid # None

\* the policy applies to a user who owns a personal cipher from before, and
\* the user's request without an organization has just been refused
C6_Witness ==
    /\ last.res = "PolicyViolation"
    /\ last.op \in {"put_cipher", "post_ciphers", "post_ciphers_create",
                    "post_ciphers_import"}
    /\ is_applicable_to_user(last.user)
    /\ \E k \in PersonalCiphers : ciphers[k].user_uuid = last.user

----------------------------------------------------------------------------
(* Collection links *)

\* C7: every stored collection-cipher link joins a stored cipher to a
\* collection of that cipher's current organization.
C7_LinksWithinOrganization ==
    \A l \in collections_ciphers :
        /\ l[1] \in DOMAIN ciphers
        /\ ciphers[l[1]].organization_uuid = collection_org(l[2])

ReconcileOps == {"post_collections_update", "post_collections_admin"}

\* C8: a collection reconciliation that is rejected because a changed
\* collection is not of the cipher's organization or not writable by the
\* requester leaves the cipher's links as they were.
C8_ReconcileAllOrNothing ==
    [][ ( /\ last'.op \in ReconcileOps
          /\ last'.res \in {"InvalidCollection", "NoRightsCollection"} )
        => LinksOf(collections_ciphers', last'.cid) =
           LinksOf(collections_ciphers, last'.cid) ]_vars

\* the reconciliation requests on stored ciphers, with every iteration order
ReconcileRequests ==
    {r \in [u : Users, cid : DOMAIN ciphers, posted : SUBSET Collections,
            admin : BOOLEAN, order : UNION {Orders(S) : S \in SUBSET Collections}] :
        r.order \in symmetric_difference(r.posted,
                        CurrentCollections(DB, r.cid, r.u, r.admin))}

\* C9: after a successful collection reconciliation with posted set P the
\* links of the cipher that the requester sees are exactly P: the links
\* only in P were created, the visible links not in P were deleted and no
\* other link was touched; posting P again finds nothing to change and
\* leaves the database as it is.
C9_ReconcileFixedPoint ==
    \A r \in ReconcileRequests :
        LET out == post_collections_update(DB, r.cid, r.posted, r.order, r.u,
                                           r.admin)
            before == CurrentCollections(DB, r.cid, r.u, r.admin)
        IN
        out.res = "Ok" =>
            /\ CurrentCollections(out.db, r.cid, r.u, r.admin) = r.posted
            /\ out.db.cc = (collections_ciphers
                               \cup {<<r.cid, c>> : c \in r.posted})
                           \ {<<r.cid, c>> : c \in before \ r.posted}
            /\ symmetric_difference(r.posted,
                   CurrentCollections(out.db, r.cid, r.u, r.admin)) = {<<>>}
            /\ LET again == post_collections_update(out.db, r.cid, r.posted,
                                                    <<>>, r.u, r.admin)
               IN again.db = out.db

\* a reconciliation that both created and deleted a link has succeeded
C9_Witness ==
    /\ last.op \in ReconcileOps
    /\ last.res = "Ok"
    /\ last.cid \in DOMAIN ciphers
    /\ LinksOf(collections_ciphers, last.cid) = {"c2"}
    /\ \E i \in 1..Len(last.events) :
          last.events[i].type = "CipherUpdatedCollections"

----------------------------------------------------------------------------
(* Attachment quota *)

\* the errors of the quota guard
QuotaErrors ==
    {"AttachmentsDisabled", "SizeOverflow", "LimitReached", "LimitExceeded"}

\* the uploads that reach the quota guard: by a user with write access, on a
\* stored cipher, through the legacy API (attachment = None) or for a
\* record reserved for the cipher
GuardedUploads ==
    {r \in [u : Users, cid : DOMAIN ciphers, upload : Uploads,
            attachment : AttachmentIds \cup {None}] :
        /\ is_write_accessible_to_user(ciphers[r.cid], r.cid, r.u,
                                       collections_ciphers)
        /\ r.attachment # None =>
              /\ r.attachment \in DOMAIN attachments
              /\ attachments[r.attachment].cipher_uuid = r.cid
        /\ r.attachment = None => CanCreateAttachment(DB)}

UploadOutcome(r) ==
    IF r.attachment = None
    THEN post_attachment(DB, r.cid, r.upload, r.u, config)
    ELSE post_attachment_v2_data(DB, r.cid, r.attachment, r.upload, r.u,
                                 config)

\* the limit configured for the owner of the cipher
OwnerLimit(cid) ==
    IF ciphers[cid].user_uuid # None THEN config.user_attachment_limit
    ELSE config.org_attachment_limit

\* the bytes already counted against the owner of the cipher
AlreadyUsed(cid) ==
    IF ciphers[cid].user_uuid # None
    THEN size_by_user(DB, ciphers[cid].user_uuid)
    ELSE size_by_org(DB, ciphers[cid].organization_uuid)

\* remaining = limit*1024 - already_used + the size reserved by this record
Remaining(r) ==
    OwnerLimit(r.cid).v * 1024 - AlreadyUsed(r.cid)
        + (IF r.attachment = None THEN 0
           ELSE attachments[r.attachment].file_size)

\* C10 as stated: with a limit configured the upload is rejected by the
\* quota guard when remaining <= 0 and otherwise exactly when the received
\* size exceeds remaining; with no limit the guard never rejects.
C10_Original ==
    \A r \in GuardedUploads :
        LET rejected == UploadOutcome(r).res \in QuotaErrors IN
        IF OwnerLimit(r.cid).some
        THEN rejected <=> (Remaining(r) <= 0 \/ r.upload.size > Remaining(r))
        ELSE ~rejected

\* limit*1024 fits the signed integer width
LimitFits(limit) ==
    /\ limit.v * 1024 <= MaxI64
    /\ limit.v * 1024 >= -(MaxI64 + 1)

\* C10: when the owner of the cipher has a configured limit whose byte count
\* limit*1024 fits the signed integer width, the upload is rejected by the
\* quota guard whenever remaining = limit*1024 - already_used + reserved
\* size is <= 0, even for a zero-byte file, and otherwise exactly when the
\* received size exceeds remaining, leaving the database as it was; when
\* limit*1024 does not fit, the upload is rejected; with no limit
\* configured the quota guard never rejects.
C10_QuotaGuard ==
    \A r \in GuardedUploads :
        LET out == UploadOutcome(r)
            rejected == out.res \in QuotaErrors
        IN
        /\ rejected => out.db = DB
        /\ IF ~OwnerLimit(r.cid).some THEN ~rejected
           ELSE IF ~LimitFits(OwnerLimit(r.cid)) THEN rejected
           ELSE /\ Remaining(r) <= 0 => rejected
                /\ Remaining(r) > 0 =>
                      (rejected <=> r.upload.size > Remaining(r))

\* an upload of exactly the remaining bytes has been accepted for an owner
\* who had used part of the limit: nothing remains now
C10_Witness ==
    /\ last.op \in {"post_attachment", "post_attachment_v2_data"}
    /\ last.res = "Ok"
    /\ last.cid \in DOMAIN ciphers
    /\ OwnerLimit(last.cid) = SomeI64(1)
    /\ last.data.size = 1
    /\ \E a \in DOMAIN attachments : attachments[a].file_size = 1023
    /\ AlreadyUsed(last.cid) = 1024

----------------------------------------------------------------------------
(* Attachments disabled *)

\* the stored attachments of ciphers whose owner has the limit zero
DisabledAttachments ==
    {a \in DOMAIN attachments :
        /\ attachments[a].cipher_uuid \in DOMAIN ciphers
        /\ OwnerLimit(attachments[a].cipher_uuid) = SomeI64(0)}

\* C11: when the limit configured for the owner of the cipher is exactly
\* zero, every attachment request for the cipher (the legacy upload, the v2
\* reservation, the v2 data upload) is rejected and no attachment record of
\* a cipher of that owner exists.
C11_DisabledAtZero ==
    /\ DisabledAttachments = {}
    /\ (/\ last.op \in {"post_attachment", "post_attachment_v2",
                        "post_attachment_v2_data"}
        /\ last.cid \in DOMAIN ciphers
        /\ OwnerLimit(last.cid) = SomeI64(0)) => last.res # "Ok"

----------------------------------------------------------------------------
(* The size band of the v2 upload *)

\* the data uploads for the reserved records: any requester, any received
\* size, through the cipher the record belongs to
ReservedUploads ==
    [u : Users, aid : DOMAIN attachments, upload : BandUploads]

ReservedOutcome(r) ==
    post_attachment_v2_data(DB, attachments[r.aid].cipher_uuid, r.aid,
                            r.upload, r.u, config)

\* declared - 1 MiB <= S <= declared + 1 MiB
InBand(declared, S) ==
    declared - LEEWAY <= S /\ S <= declared + LEEWAY

\* the errors of the size check
SizeCheckErrors == {"SizeMismatch", "InvalidSizeMax", "InvalidSizeMin"}

\* the upload passes every check before the size check
ReachesSizeCheck(r) ==
    LET cid == attachments[r.aid].cipher_uuid IN
    /\ cid \in DOMAIN ciphers
    /\ is_write_accessible_to_user(ciphers[cid], cid, r.u,
                                   collections_ciphers)
    /\ LET guard == SizeLimit(DB, ciphers[cid], attachments[r.aid].file_size,
                              config)
       IN /\ guard.err = "Ok"
          /\ guard.size_limit.some => r.upload.size <= guard.size_limit.v

\* C12: a v2 data upload whose received size S satisfies
\* declared - 1 MiB <= S <= declared + 1 MiB, both boundaries included, is
\* not rejected by the size check and keeps its reservation; it succeeds
\* when the checks before the size check pass, and after it succeeds the
\* stored file_size of the record is S and nothing else of the attachment
\* records has changed.
C12_BandAccepts ==
    \A r \in ReservedUploads :
        LET out == ReservedOutcome(r) IN
        InBand(attachments[r.aid].file_size, r.upload.size) =>
            /\ out.res \notin SizeCheckErrors
            /\ r.aid \in DOMAIN out.db.atts
            /\ ReachesSizeCheck(r) => out.res = "Ok"
            /\ out.res = "Ok" =>
                  out.db.atts =
                      [attachments EXCEPT ![r.aid].file_size = r.upload.size]

\* an upload of 2 * LEEWAY + 1 bytes, the upper boundary of the band of the
\* declared size LEEWAY + 1, has been accepted and the stored size is the
\* received one
C12_Witness ==
    /\ last.op = "post_attachment_v2_data"
    /\ last.res = "Ok"
    /\ last.data.size = 2 * LEEWAY + 1
    /\ last.data.attachment \in DOMAIN attachments
    /\ attachments[last.data.attachment].file_size = 2 * LEEWAY + 1

\* the requester has write access to the cipher of the reserved record
MayWrite(r) ==
    LET cid == attachments[r.aid].cipher_uuid IN
    /\ cid \in DOMAIN ciphers
    /\ is_write_accessible_to_user(ciphers[cid], cid, r.u,
                                   collections_ciphers)

\* C13 as stated, for requesters with write access: whenever the received
\* size lies outside the band the upload is rejected and the reservation no
\* longer exists afterwards.
C13_Original ==
    \A r \in ReservedUploads :
        LET out == ReservedOutcome(r) IN
        (MayWrite(r) /\ ~InBand(attachments[r.aid].file_size, r.upload.size))
        =>
            /\ out.res # "Ok"
            /\ r.aid \notin DOMAIN out.db.atts

\* the band of the declared size is computable: declared + 1 MiB fits the
\* signed integer width (declared - 1 MiB always does, declared sizes are
\* not negative)
BandFits(declared) == declared + LEEWAY <= MaxI64

\* C13: a v2 data upload whose received size lies outside
\* [declared - 1 MiB, declared + 1 MiB] is always rejected; when it passes
\* the checks before the size check (cipher found, write access, quota) and
\* declared + 1 MiB fits the integer width, it is rejected as a size
\* mismatch and exactly the reservation is removed; when an earlier check
\* rejects it, the database, the reservation included, is left as it was.
C13_OutOfBandRejected ==
    \A r \in ReservedUploads :
        LET out == ReservedOutcome(r)
            declared == attachments[r.aid].file_size
        IN
        ~InBand(declared, r.upload.size) =>
            /\ out.res # "Ok"
            /\ (ReachesSizeCheck(r) /\ BandFits(declared)) =>
                  /\ out.res = "SizeMismatch"
                  /\ out.db = AttachmentDelete(DB, r.aid)
            /\ ~(ReachesSizeCheck(r) /\ BandFits(declared)) =>
                  out.db = DB

\* an upload of LEEWAY + 1 bytes, one byte above the band of the declared
\* size 0, has been rejected as a size mismatch and its reservation is gone
C13_Witness ==
    /\ last.op = "post_attachment_v2_data"
    /\ last.res = "SizeMismatch"
    /\ last.data.size = LEEWAY + 1
    /\ last.data.attachment \notin DOMAIN attachments

----------------------------------------------------------------------------
(* Arithmetic at the integer width *)

\* v fits the signed integer width
Fits(v) == -(MaxI64 + 1) <= v /\ v <= MaxI64

\* the uploads by a requester with write access: the legacy upload
\* (attachment = None) or the data of a record reserved for the cipher. The
\* received length is unsigned; the size -1 stands for the value the check
\* of line 1146 guards against.
ArithmeticUploads ==
    {r \in [u : Users, cid : DOMAIN ciphers,
            upload : [size : ReceivedSizes \cup {-1}, has_name : {TRUE},
                      has_key : {TRUE}],
            attachment : AttachmentIds \cup {None}] :
        /\ is_write_accessible_to_user(ciphers[r.cid], r.cid, r.u,
                                       collections_ciphers)
        /\ r.attachment # None =>
              /\ r.attachment \in DOMAIN attachments
              /\ attachments[r.attachment].cipher_uuid = r.cid
        /\ r.attachment = None => CanCreateAttachment(DB)}

ArithmeticOutcome(r) ==
    IF r.attachment = None
    THEN post_attachment(DB, r.cid, r.upload, r.u, config)
    ELSE post_attachment_v2_data(DB, r.cid, r.attachment, r.upload, r.u,
                                 config)

\* the size reserved by the record of the upload, 0 for the legacy upload
Reserved(r) ==
    IF r.attachment = None THEN 0 ELSE attachments[r.attachment].file_size

\* one of limit*1024, limit*1024 - already_used and
\* limit*1024 - already_used + reserved does not fit the integer width
QuotaOverflows(r) ==
    LET limit == OwnerLimit(r.cid).v
        used == AlreadyUsed(r.cid)
    IN /\ OwnerLimit(r.cid).some
       /\ limit # 0
       /\ \/ ~Fits(limit * 1024)
          \/ ~Fits(limit * 1024 - used)
          \/ ~Fits(limit * 1024 - used + Reserved(r))

\* declared + 1 MiB or declared - 1 MiB does not fit the integer width
BandOverflows(r) ==
    /\ r.attachment # None
    /\ \/ ~Fits(Reserved(r) + LEEWAY)
       \/ ~Fits(Reserved(r) - LEEWAY)

\* C14: the quota and band arithmetic never wraps. An upload (legacy or v2
\* data) by a requester with write access is rejected with the overflow
\* error when limit*1024, the subtraction of the bytes already used or the
\* addition of the reserved size does not fit the signed integer width; it
\* is rejected, with the invalid-size error once it has passed the quota
\* guard, when declared +/- 1 MiB does not fit; a negative received size is
\* rejected; in each case the database is left as it was. A reservation
\* with a negative declared size is rejected and stores nothing, so no
\* stored attachment has a negative size.
C14_NoWrap ==
    /\ \A r \in ArithmeticUploads :
          LET out == ArithmeticOutcome(r) IN
          /\ r.upload.size < 0 =>
                out.res = "NegativeSize" /\ out.db = DB
          /\ (r.upload.size >= 0 /\ QuotaOverflows(r)) =>
                out.res = "SizeOverflow" /\ out.db = DB
          /\ (r.upload.size >= 0 /\ BandOverflows(r)) =>
                /\ out.res \in QuotaErrors \cup {"InvalidSizeMax",
                                                 "InvalidSizeMin"}
                /\ out.db = DB
                /\ out.res \notin QuotaErrors =>
                      out.res \in {"InvalidSizeMax", "InvalidSizeMin"}
    /\ \A u \in Users, cid \in DOMAIN ciphers, size \in DeclaredSizes :
          (size < 0 /\ CanCreateAttachment(DB)) =>
              LET out == post_attachment_v2(DB, cid, size, u) IN
              out.res # "Ok" /\ out.db = DB
    /\ \A a \in DOMAIN attachments : attachments[a].file_size >= 0

\* the data upload for a reservation has been rejected because the byte
\* count of the configured limit does not fit the integer width; the
\* reservation is still stored
C14_Witness ==
    /\ last.op = "post_attachment_v2_data"
    /\ last.res = "SizeOverflow"
    /\ ~Fits(config.user_attachment_limit.v * 1024)
    /\ last.data.attachment \in DOMAIN attachments

----------------------------------------------------------------------------
(* Attachments and the cipher they are operated on through *)

\* the requests that name a stored attachment and a cipher other than the
\* attachment's
MismatchedAttachmentRequests ==
    {r \in [u : Users, cid : CipherIds, aid : DOMAIN attachments,
            upload : SmallUploads] :
        attachments[r.aid].cipher_uuid # r.cid}

\* C15: fetching, uploading data for, or deleting an attachment through a
\* cipher C other than the attachment's cipher is rejected, and the
\* attachment record, like the rest of the database, is left unchanged.
C15_AttachmentOfCipher ==
    \A r \in MismatchedAttachmentRequests :
        LET got == get_attachment(DB, r.cid, r.aid, r.u)
            put == post_attachment_v2_data(DB, r.cid, r.aid, r.upload, r.u,
                                           config)
            del == delete_cipher_attachment_by_id(DB, r.cid, r.aid, r.u)
        IN /\ got.res # "Ok" /\ got.db = DB
           /\ put.res # "Ok" /\ put.db = DB
           /\ del.res # "Ok" /\ del.db = DB

\* the deletion of an attachment of another cipher has been refused to a
\* requester who may write the cipher named in the request; the attachment
\* is still stored with its cipher
C15_Witness ==
    /\ last.op = "delete_attachment"
    /\ last.res = "AttachmentWrongCipher"
    /\ last.cid \in DOMAIN ciphers
    /\ is_write_accessible_to_user(ciphers[last.cid], last.cid, last.user,
                                   collections_ciphers)
    /\ last.data.attachment \in DOMAIN attachments
    /\ attachments[last.data.attachment].cipher_uuid # last.cid
    /\ attachments[last.data.attachment].cipher_uuid \in DOMAIN ciphers

----------------------------------------------------------------------------
(* Attachment re-keying *)

\* C16: in an update that carries attachment re-key data and succeeds, a
\* posted attachment id that is not stored or that belongs to another
\* cipher is skipped, and every posted attachment that is stored and
\* belongs to the updated cipher has the new key and file name afterwards,
\* whatever the order in which the posted ids are processed.
C16_RekeySkipsOnly ==
    \A u \in Users, cid \in DOMAIN ciphers, data \in RekeyDataSet :
        LET out == put_cipher(DB, cid, data, u) IN
        out.res = "Ok" =>
            \A i \in 1..Len(data.attachments2) :
                LET a == data.attachments2[i] IN
                (a \in DOMAIN attachments /\ attachments[a].cipher_uuid = cid)
                => /\ a \in DOMAIN out.db.atts
                   /\ out.db.atts[a].akey = "rotated"
                   /\ out.db.atts[a].file_name = "rotated"

----------------------------------------------------------------------------
(* Type and payload *)

\* requests with every combination of a declared type and of payload
\* objects present (1 Login, 2 SecureNote), otherwise valid
TypedDataSet ==
    {[d EXCEPT !.atype = t, !.payloads = P] :
        d \in {x \in NewCipherDataSet : x.notes = -1 /\ x.atype = 1},
        t \in {0, 1, 2, 6},
        P \in SUBSET {1, 2}}

\* the declared type is not one of 1..5 or its payload object is absent
BadPayload(d) == d.atype \notin 1..5 \/ d.atype \notin d.payloads

\* the outcome of a create or update of cipher cid with data d: rejected
\* with no cipher record written when the type or the payload is bad, and on
\* success the stored data is the payload of the declared type
TypeChecked(out, d, cid) ==
    /\ BadPayload(d) => (out.res # "Ok" /\ out.db.ciphers = ciphers)
    /\ out.res = "Ok" => out.db.ciphers[cid].data = d.atype

\* C17: a create (post_ciphers, post_ciphers_create) or update (put_cipher)
\* request whose declared type is not one of 1..5, or whose payload object
\* for the declared type is absent, is rejected and no cipher record is
\* written; when the request succeeds the stored data is the payload object
\* of the declared type.
C17_TypeAndPayload ==
    \A u \in Users, d \in TypedDataSet :
        /\ \A cid \in DOMAIN ciphers :
              TypeChecked(put_cipher(DB, cid, d, u), d, cid)
        /\ CanCreate(DB, 1) =>
              /\ TypeChecked(post_ciphers(DB, d, u), d, FreshCipherId(DB))
              /\ \A cols \in CollectionIdLists :
                    TypeChecked(post_ciphers_create(DB, d, cols, u), d,
                                FreshCipherId(DB))

----------------------------------------------------------------------------
(* The audit event of an ownership transfer *)

\* the stored ciphers owned by a user
StoredPersonal == {cid \in DOMAIN ciphers : ciphers[cid].organization_uuid = None}

\* the request succeeded and the cipher is owned by an organization now
MovedToOrganization(out, cid) ==
    /\ out.res = "Ok"
    /\ out.db.ciphers[cid].organization_uuid # None

\* the audit events of out are one event of the given type for the cipher,
\* its new organization and the requester
OneEvent(out, type, cid, u) ==
    out.events = << [type |-> type, cipher |-> cid,
                     org |-> out.db.ciphers[cid].organization_uuid,
                     user |-> u] >>

\* C18 as stated: every request that moves a stored personal cipher into an
\* organization, by put_cipher or by a share endpoint, records the audit
\* event CipherShared.
C18_Original ==
    \A u \in Users, cid \in StoredPersonal, d \in TimedDataSet :
        /\ LET out == put_cipher(DB, cid, d, u) IN
           MovedToOrganization(out, cid) =>
               OneEvent(out, "CipherShared", cid, u)
        /\ \A cols \in TimedCollectionIdLists :
              LET out == share_cipher_by_uuid(DB, cid, d, cols, u) IN
              MovedToOrganization(out, cid) =>
                  OneEvent(out, "CipherShared", cid, u)

\* C18: a put_cipher that moves a stored personal cipher into an
\* organization records the audit event CipherShared; a share request that
\* does so records CipherShared when it carries a last-known revision date
\* and CipherCreated when it carries none; neither records CipherUpdated.
C18_TransferLogged ==
    \A u \in Users, cid \in StoredPersonal, d \in TimedDataSet :
        /\ LET out == put_cipher(DB, cid, d, u) IN
           MovedToOrganization(out, cid) =>
               OneEvent(out, "CipherShared", cid, u)
        /\ \A cols \in TimedCollectionIdLists :
              LET out == share_cipher_by_uuid(DB, cid, d, cols, u) IN
              MovedToOrganization(out, cid) =>
                  OneEvent(out,
                           IF d.last_known_revision_date.kind # "none"
                           THEN "CipherShared" ELSE "CipherCreated",
                           cid, u)

\* a share request carrying a revision date has moved a stored personal
\* cipher into an organization and CipherShared has been recorded
C18_Witness ==
    /\ last.op = "share_cipher"
    /\ last.res = "Ok"
    /\ last.data.rev # "none"
    /\ last.cid \in DOMAIN ciphers
    /\ ciphers[last.cid].organization_uuid = last.data.organization_id
    /\ last.events = << [type |-> "CipherShared", cipher |-> last.cid,
                         org |-> last.data.organization_id,
                         user |-> last.user] >>

----------------------------------------------------------------------------
(* The audit log *)

\* every audit event of out carries the organization org, and there is none
\* when org is absent
EventsOf(out, org) ==
    /\ org = None => out.events = <<>>
    /\ \A i \in 1..Len(out.events) : out.events[i].org = org

\* the owner organization of cipher cid in the database db, None when the
\* cipher is not stored
OrganizationOf(db, cid) ==
    IF cid \in DOMAIN db.ciphers THEN db.ciphers[cid].organization_uuid
    ELSE None

\* C19: every audit event of a request carries the owner organization of
\* the request's cipher, and a request on a cipher that has no owner
\* organization (after the request for a create, update or share, before it
\* for a delete, restore, attachment add or delete and collection update)
\* produces no audit event.
C19_AuditOnlyOrganizations ==
    /\ \A u \in Users, cid \in id_pool :
          LET org == OrganizationOf(DB, cid) IN
          /\ \A soft \in BOOLEAN :
                EventsOf(delete_cipher_by_uuid(DB, cid, u, soft), org)
          /\ EventsOf(restore_cipher_by_uuid(DB, cid, u), org)
          /\ \A aid \in AttachmentIds, upload \in SmallUploads :
                /\ EventsOf(post_attachment_v2_data(DB, cid, aid, upload, u,
                                                    config), org)
                /\ EventsOf(delete_cipher_attachment_by_id(DB, cid, aid, u),
                            org)
          /\ CanCreateAttachment(DB) =>
                \A upload \in SmallUploads :
                    EventsOf(post_attachment(DB, cid, upload, u, config), org)
          /\ \A posted \in SUBSET Collections, admin \in BOOLEAN :
                \A order \in symmetric_difference(posted,
                                 CurrentCollections(DB, cid, u, admin)) :
                    EventsOf(post_collections_update(DB, cid, posted, order,
                                                     u, admin), org)
          /\ \A d \in AuditDataSet :
                /\ LET out == put_cipher(DB, cid, d, u) IN
                   EventsOf(out, OrganizationOf(out.db, cid))
                /\ \A cols \in TimedCollectionIdLists :
                      LET out == share_cipher_by_uuid(DB, cid, d, cols, u) IN
                      /\ EventsOf(out, OrganizationOf(out.db, cid))
                      /\ out.res # "Ok" => out.events = <<>>
    /\ \A u \in Users, d \in AuditDataSet :
          CanCreate(DB, 1) =>
              /\ LET out == post_ciphers(DB, d, u) IN
                 EventsOf(out, OrganizationOf(out.db, FreshCipherId(DB)))
              /\ \A cols \in TimedCollectionIdLists :
                    LET out == post_ciphers_create(DB, d, cols, u) IN
                    /\ EventsOf(out, OrganizationOf(out.db, FreshCipherId(DB)))
                    /\ out.res # "Ok" => out.events = <<>>
    /\ \A i \in 1..Len(last.events) : last.events[i].org # None

\* a personal cipher has been restored: its users were notified and no
\* audit event was produced
C19_Witness ==
    /\ last.op = "restore_cipher"
    /\ last.res = "Ok"
    /\ last.cid \in DOMAIN ciphers
    /\ ciphers[last.cid].organization_uuid = None
    /\ last.notifs # <<>>
    /\ last.events = <<>>

----------------------------------------------------------------------------
(* Dispatch after persistence *)

\* C20: notification dispatch and audit logging occur only after the
\* persistence step of the request has succeeded: a request that does not
\* end successfully has emitted no notification and no audit event.
C20_EmitAfterPersist ==
    last.res # "Ok" => (last.notifs = <<>> /\ last.events = <<>>)

----------------------------------------------------------------------------
(* Bulk import *)

\* the imports the id generator has ids for
ImportRequests ==
    {r \in [u : Users, imp : BulkImportSet] :
        CanCreate(DB, Len(r.imp.ciphers))}

\* the import with the revision dates of its items removed
UndatedImport(imp) ==
    [imp EXCEPT !.ciphers =
        [i \in 1..Len(imp.ciphers) |-> WithoutRevisionDate(imp.ciphers[i])]]

\* C21: a bulk import is never rejected as stale, whatever revision dates
\* its items carry (its outcome is that of the same import without the
\* dates); it records no audit event and sends no cipher notification; it
\* sends exactly one user-level SyncVault notification when every item has
\* been processed successfully and none when it aborts.
C21_ImportAggregate ==
    \A r \in ImportRequests :
        LET out == post_ciphers_import(DB, r.imp, r.u) IN
        /\ out.res # "OutOfDate"
        /\ out = post_ciphers_import(DB, UndatedImport(r.imp), r.u)
        /\ out.events = <<>>
        /\ out.res = "Ok" =>
              out.notifs = << [kind |-> "user", ut |-> "SyncVault",
                               id |-> r.u] >>
        /\ out.res # "Ok" => out.notifs = <<>>

\* an import of two items carrying old revision dates, one of them for an
\* organization, has succeeded with one user-level notification and no
\* audit event
C21_Witness ==
    /\ last.op = "post_ciphers_import"
    /\ last.res = "Ok"
    /\ Len(last.data.ids) = 2
    /\ \E i \in 1..2 : last.data.ids[i].organization_id = "o1"
    /\ \A i \in 1..2 : last.data.ids[i].last_known_revision_date.kind = "ok"
    /\ \E c \in DOMAIN ciphers : ciphers[c].organization_uuid = "o1"
    /\ last.notifs = << [kind |-> "user", ut |-> "SyncVault",
                         id |-> last.user] >>
    /\ last.events = <<>>

----------------------------------------------------------------------------
(* Bulk requests stop at the first failure *)

\* the bulk requests of two ids
PairRequests ==
    {r \in [u : Users, ids : CipherIdLists] : Len(r.ids) = 2}

\* bulk is the outcome of a bulk request of two ids, first the outcome of
\* the single request for the first id on the database as it was, second
\* the outcome of the single request for the second id on the database the
\* first one left: the bulk request stops at the first failure with its
\* error and keeps what was committed before
StopsAtFirstFailure(bulk, first, second) ==
    IF first.res # "Ok"
    THEN bulk.res = first.res /\ bulk.db = DB
    ELSE /\ bulk.res = second.res
         /\ bulk.db = second.db
         /\ second.res # "Ok" => bulk.db = first.db

\* item d of an import by u is rejected by the pipeline
ItemFails(d, u) ==
    update_cipher_from_data(DB, NewCipher(d.atype), FreshCipherId(DB), d, u,
                            NoShare, "None").res # "Ok"

\* the number of items of the import before the first one that fails
ItemsBeforeFailure(imp, u) ==
    LET failing == {i \in 1..Len(imp.ciphers) : ItemFails(imp.ciphers[i], u)}
    IN IF failing = {} THEN Len(imp.ciphers)
       ELSE (CHOOSE i \in failing : \A j \in failing : i <= j) - 1

----------------------------------------------------------------------------
(* Write access implies read access *)

\* C23: for every user and every stored cipher, whatever the memberships,
\* the collection links and the group grants have become, a cipher the user
\* may write is a cipher the user may read: a request that passes the
\* write-access check of put_cipher is answered by get_cipher.
C23_WriteImpliesRead ==
    \A u \in Users, cid \in DOMAIN ciphers :
        is_write_accessible_to_user(ciphers[cid], cid, u, collections_ciphers)
            => /\ is_accessible_to_user(ciphers[cid], cid, u,
                                        collections_ciphers)
               /\ get_cipher(DB, cid, u).res = "Ok"

\* a plain member who is not the owner and has no direct grant reads a
\* cipher of the organization that only a grant of one of their groups lets
\* them write
C23_Witness ==
    /\ last.op = "get_cipher"
    /\ last.res = "Ok"
    /\ ciphers[last.cid].user_uuid # last.user
    /\ ciphers[last.cid].organization_uuid # None
    /\ ~has_full_access(members[<<last.user, ciphers[last.cid].organization_uuid>>])
    /\ \A c \in LinksOf(collections_ciphers, last.cid) : ~HasGrant(last.user, c)
    /\ is_write_accessible_to_user(ciphers[last.cid], last.cid, last.user,
                                   collections_ciphers)

----------------------------------------------------------------------------
(* The group grants of the sync snapshot *)

\* the rows of the list that grant on collection c
GrantsOn(rows, c) ==
    {rows[i] : i \in {j \in DOMAIN rows : rows[j].collections_uuid = c}}

\* the lists with the rows of the list in another order
Reorderings(rows) ==
    {other \in [DOMAIN rows -> {rows[i] : i \in DOMAIN rows}] :
        \A i, j \in DOMAIN rows : other[i] = other[j] => i = j}

\* the three flags of a grant
Flags(g) == <<g.read_only, g.hide_passwords, g.manage>>

\* C24: when the sync snapshot combines several group grants of the user
\* for one collection, the resolved grant has read_only = AND of the
\* read_only flags, hide_passwords = AND of the hide_passwords flags and
\* manage = OR of the manage flags, in whatever order the grants are
\* returned; a collection with a single grant keeps that grant unchanged.
C24_MostPermissiveGrant ==
    (last.op = "sync" /\ config.org_groups_enabled) =>
        LET rows == last.data.rows
            resolved == last.data.snapshot.user_collections_groups
        IN /\ DOMAIN resolved = {rows[i].collections_uuid : i \in DOMAIN rows}
           /\ \A c \in DOMAIN resolved :
                 /\ resolved[c].read_only =
                        (\A g \in GrantsOn(rows, c) : g.read_only)
                 /\ resolved[c].hide_passwords =
                        (\A g \in GrantsOn(rows, c) : g.hide_passwords)
                 /\ resolved[c].manage =
                        (\E g \in GrantsOn(rows, c) : g.manage)
                 /\ Cardinality(GrantsOn(rows, c)) = 1 =>
                        resolved[c] \in GrantsOn(rows, c)
                 /\ \A other \in Reorderings(rows) :
                        Flags(CombineGroupGrants(<< >>, other)[c]) =
                            Flags(resolved[c])

\* three groups of the user grant on c2, read-only except for the second
\* and managing only in the third: the resolved grant writes and manages
C24_Witness ==
    /\ last.op = "sync"
    /\ config.org_groups_enabled
    /\ Len(last.data.rows) = 3
    /\ \A i \in 1..3 : last.data.rows[i].collections_uuid = "c2"
    /\ last.data.rows[1].read_only /\ ~last.data.rows[2].read_only
    /\ last.data.rows[3].read_only
    /\ ~last.data.rows[1].manage /\ ~last.data.rows[2].manage
    /\ last.data.rows[3].manage
    /\ ~last.data.snapshot.user_collections_groups["c2"].read_only
    /\ last.data.snapshot.user_collections_groups["c2"].manage

----------------------------------------------------------------------------
(* Folders and favorites in the sync snapshot *)

\* C25: a sync snapshot built with Organization scope has an empty
\* cipher-to-folder map and an empty favorites set whatever folders and
\* favorites the user has; with User scope they hold exactly the folder
\* assignments and the favorites of that user.
C25_ScopeOfFolders ==
    \A u \in Users :
        LET org == CipherSyncData_new(DB, u, "Organization", <<>>)
            usr == CipherSyncData_new(DB, u, "User", <<>>)
        IN /\ DOMAIN org.cipher_folders = {}
           /\ org.cipher_favorites = {}
           /\ \A cid \in CipherIds, f \in FolderIds :
                 (cid \in DOMAIN usr.cipher_folders /\ usr.cipher_folders[cid] = f)
                     <=> <<u, cid, f>> \in folders_ciphers
           /\ \A cid \in CipherIds :
                 cid \in usr.cipher_favorites <=> <<u, cid>> \in favorites

\* a user who has the cipher in a folder and as a favorite, as has the other
\* user, asks for a snapshot with Organization scope: both maps are empty
C25_Witness ==
    /\ last.op = "sync"
    /\ last.data.sync_type = "Organization"
    /\ \A u \in Users :
          /\ <<u, "k1">> \in favorites
          /\ \E f \in FolderIds : <<u, "k1", f>> \in folders_ciphers
    /\ DOMAIN last.data.snapshot.cipher_folders = {}
    /\ last.data.snapshot.cipher_favorites = {}

----------------------------------------------------------------------------
(* Folder and favorite assignments are per user *)

\* the folder and favorite assignments of the users other than u
OthersAssignments(db, u) ==
    <<{a \in db.fc : a[1] # u}, {a \in db.fav : a[1] # u}>>

\* the outcomes of the update, share, partial update and move requests u
\* can make
AssignmentRequests(u) ==
    {post_ciphers(DB, d, u) : d \in {x \in FolderDataSet : CanCreate(DB, 1)}}
    \cup {put_cipher(DB, cid, d, u) : cid \in id_pool, d \in FolderDataSet}
    \cup {share_cipher_by_uuid(DB, cid, d, <<"c1">>, u) :
             cid \in id_pool, d \in FolderDataSet}
    \cup {put_cipher_partial(DB, cid, d, u) :
             cid \in id_pool, d \in PartialDataSet}
    \cup {move_cipher_selected(DB, ids, f, u) :
             ids \in CipherIdLists, f \in {None, "f1", "f2"}}

\* C26: an update, share, partial update or move request by user U changes
\* folder and favorite assignments only for U: the assignments of every
\* other user are as they were, also when the cipher is shared with them.
C26_OwnAssignmentsOnly ==
    \A u \in Users : \A out \in AssignmentRequests(u) :
        OthersAssignments(out.db, u) = OthersAssignments(DB, u)

\* a member has changed their own folder and favorite of a cipher of the
\* organization with a partial update while the other member, who can read
\* the cipher too, keeps it in a folder and as a favorite
C26_Witness ==
    /\ last.op = "put_cipher_partial"
    /\ last.res = "Ok"
    /\ last.data.folder_id # None
    /\ <<last.user, last.cid>> \in favorites
    /\ ciphers[last.cid].organization_uuid = "o1"
    /\ \E v \in Users \ {last.user} :
          /\ is_accessible_to_user(ciphers[last.cid], last.cid, v,
                                   collections_ciphers)
          /\ <<v, last.cid>> \in favorites
          /\ \E f \in FolderIds : <<v, last.cid, f>> \in folders_ciphers

----------------------------------------------------------------------------
(* A personal cipher written into an organization, before and after the
   requester becomes a member *)

\* the stored personal Login ciphers
PersonalLogins ==
    {cid \in DOMAIN ciphers :
        /\ ciphers[cid].organization_uuid = None
        /\ ciphers[cid].user_uuid # None
        /\ ciphers[cid].atype = 1}

\* the writes that declare an organization
OrganizationWrites == {d \in AccessDataSet : d.organization_id # None}

\* u is a member of o with full access
FullAccessMember(u, o) ==
    HasMember(u, o) /\ has_full_access(members[<<u, o>>])

\* C27 as stated: the write of the owner of a personal Login cipher that
\* declares organization O succeeds once the owner has a full-access
\* membership in O, and the audit event recorded is CipherUpdated.
C27_Original ==
    \A cid \in PersonalLogins, d \in OrganizationWrites :
        LET u == ciphers[cid].user_uuid
            out == put_cipher(DB, cid, d, u)
        IN FullAccessMember(u, d.organization_id) =>
               /\ out.res = "Ok"
               /\ OneEvent(out, "CipherUpdated", cid, u)

\* C27: a write to a stored personal Login cipher that declares organization
\* O is rejected and changes nothing while the requester has no membership
\* in O; once the owner of the cipher has a full-access membership in O the
\* same write succeeds, moves the cipher to O and records the audit event
\* CipherShared; a requester who does not own the personal cipher is
\* rejected with or without the membership.
C27_ForbiddenThenShared ==
    \A cid \in PersonalLogins, d \in OrganizationWrites, u \in Users :
        LET out == put_cipher(DB, cid, d, u) IN
        /\ ~HasMember(u, d.organization_id) =>
              /\ out.res = IF u = ciphers[cid].user_uuid
                           THEN "NoPermissionAddItem"
                           ELSE "NotWriteAccessible"
              /\ out.db = DB
              /\ out.events = <<>> /\ out.notifs = <<>>
        /\ FullAccessMember(u, d.organization_id) =>
              IF u = ciphers[cid].user_uuid
              THEN /\ out.res = "Ok"
                   /\ out.db.ciphers[cid].organization_uuid = d.organization_id
                   /\ OneEvent(out, "CipherShared", cid, u)
              ELSE out.res = "NotWriteAccessible" /\ out.db = DB

\* u1, who is no member of o2 at the start, has been given a full-access
\* membership in o2 and has written a cipher into o2 with put_cipher: the
\* event recorded is CipherShared
C27_Witness ==
    /\ last.op = "put_cipher"
    /\ last.res = "Ok"
    /\ last.user = "u1"
    /\ last.data.organization_id = "o2"
    /\ FullAccessMember("u1", "o2")
    /\ last.events = << [type |-> "CipherShared", cipher |-> last.cid,
                         org |-> "o2", user |-> "u1"] >>

----------------------------------------------------------------------------
(* Validation before persistence *)

\* updates that carry attachment re-key data, valid or with a type that is
\* not known or with the payload object of the type absent
RejectedRekeySet ==
    {[d EXCEPT !.atype = t, !.payloads = P] :
        d \in RekeyDataSet, t \in {1, 6}, P \in {{1}, {}}}

\* C28: in the update pipeline persisted state is modified only after every
\* validation step has passed: a request the pipeline rejects leaves the
\* cipher record, the keys and names of its attachments and the folder and
\* favorite assignments exactly as they were, and no notification is sent
\* for a request that persisted nothing.
C28_ValidateBeforePersist ==
    \A u \in Users, cid \in DOMAIN ciphers, data \in RejectedRekeySet :
        LET out == update_cipher_from_data(DB, ciphers[cid], cid, data, u,
                                           NoShare, "SyncCipherUpdate")
        IN out.res # "Ok" =>
               /\ out.db = DB
               /\ out.notifs = <<>>
               /\ out.events = <<>>

----------------------------------------------------------------------------
(* Writes need write access *)

\* the persisted state of cipher cid: its record, its attachments and its
\* collection links
CipherState(db, cid) ==
    <<IF cid \in DOMAIN db.ciphers THEN <<db.ciphers[cid]>> ELSE <<>>,
      {<<a, db.atts[a]>> : a \in {b \in DOMAIN db.atts :
                                     db.atts[b].cipher_uuid = cid}},
      LinksOf(db.cc, cid)>>

\* the outcomes of the update, share, delete, restore, attachment and
\* collection requests u can make on cipher cid
WriteRequests(u, cid) ==
    {put_cipher(DB, cid, d, u) : d \in AuditDataSet}
    \cup {share_cipher_by_uuid(DB, cid, d, cols, u) :
             d \in AuditDataSet, cols \in CollectionIdLists}
    \cup {delete_cipher_by_uuid(DB, cid, u, soft) : soft \in BOOLEAN}
    \cup {restore_cipher_by_uuid(DB, cid, u)}
    \cup {post_attachment_v2(DB, cid, size, u) :
             size \in {x \in {1} : CanCreateAttachment(DB)}}
    \cup {post_attachment(DB, cid, upload, u, config) :
             upload \in {x \in SmallUploads : CanCreateAttachment(DB)}}
    \cup {post_attachment_v2_data(DB, cid, aid, upload, u, config) :
             aid \in AttachmentIds, upload \in SmallUploads}
    \cup {delete_cipher_attachment_by_id(DB, cid, aid, u) :
             aid \in AttachmentIds}
    \cup UNION {{post_collections_update(DB, cid, posted, order, u, admin) :
                    order \in symmetric_difference(posted,
                                  CurrentCollections(DB, cid, u, admin))} :
                posted \in SUBSET Collections, admin \in BOOLEAN}

\* C29: no update, share, soft or hard delete, restore, attachment
\* reservation, upload or delete, or collection reconciliation changes the
\* record, the attachments or the collection links of a stored cipher the
\* requester may not write.
C29_WriteNeedsWriteAccess ==
    \A u \in Users, cid \in DOMAIN ciphers :
        ~is_write_accessible_to_user(ciphers[cid], cid, u, collections_ciphers)
            => \A out \in WriteRequests(u, cid) :
                  /\ out.res # "Ok"
                  /\ \A c \in DOMAIN ciphers :
                        CipherState(out.db, c) = CipherState(DB, c)

\* a member who can read a cipher of the organization through a read-only
\* grant, and not write it, has asked to reserve an attachment on it: the
\* request is rejected and the cipher has no attachment
C29_Witness ==
    /\ last.op = "post_attachment_v2"
    /\ last.res = "NotWriteAccessible"
    /\ last.cid \in DOMAIN ciphers
    /\ is_accessible_to_user(ciphers[last.cid], last.cid, last.user,
                             collections_ciphers)
    /\ ~is_write_accessible_to_user(ciphers[last.cid], last.cid, last.user,
                                    collections_ciphers)
    /\ attachments = << >>

----------------------------------------------------------------------------
(* Concurrent updates of one cipher *)

\* the requests in flight that carry a revision date
DatedInflight ==
    {r \in DOMAIN inflight :
        inflight[r].data.last_known_revision_date.kind = "ok"}

\* the revision date request r carries
KnownDate(r) == inflight[r].data.last_known_revision_date.t

\* C30 as stated: whatever the interleaving, an update in flight is
\* rejected as stale, and not persisted, when the stored cipher has been
\* persisted with an updated_at more than one second ahead of the revision
\* date the request carries.
C30_Original ==
    \A r \in DatedInflight :
        ciphers[inflight[r].cid].updated_at - KnownDate(r) > TicksPerSecond
            => /\ FinishOutcome(r).res = "OutOfDate"
               /\ FinishOutcome(r).db = DB

\* C30: an update in flight is rejected as stale, and changes nothing,
\* exactly when the cipher row as the request read it is two whole seconds
\* or more ahead of the revision date it carries; otherwise it is persisted
\* over whatever another request has stored since the row was read.
C30_StaleByReadCopy ==
    \A r \in DatedInflight :
        IF num_seconds(inflight[r].cipher.updated_at - KnownDate(r)) >= 2
        THEN FinishOutcome(r).res = "OutOfDate" /\ FinishOutcome(r).db = DB
        ELSE /\ FinishOutcome(r).res = "Ok"
             /\ FinishOutcome(r).db.ciphers[inflight[r].cid].updated_at = now

\* an update has been persisted while another request that had read the
\* cipher before is in flight: the stored row is two seconds ahead of the
\* date the request in flight carries, and the request is persisted
C30_Witness ==
    /\ last.op = "put_cipher"
    /\ last.res = "Ok"
    /\ \E r \in DatedInflight :
          /\ inflight[r].cid = last.cid
          /\ inflight[r].cipher.updated_at < ciphers[last.cid].updated_at
          /\ num_seconds(ciphers[last.cid].updated_at - KnownDate(r)) >= 2
          /\ FinishOutcome(r).res = "Ok"

----------------------------------------------------------------------------
(* The storage ceiling of an owner *)

\* the bytes counted against each owner with a positive limit stay within
\* limit*1024 (a negative limit admits no upload at all and is left to the
\* quota guard)
WithinCeiling(db, cfg) ==
    /\ \A u \in Users :
          (cfg.user_attachment_limit.some /\ cfg.user_attachment_limit.v > 0)
              => size_by_user(db, u) <= cfg.user_attachment_limit.v * 1024
    /\ \A o \in Orgs :
          (cfg.org_attachment_limit.some /\ cfg.org_attachment_limit.v > 0)
              => size_by_org(db, o) <= cfg.org_attachment_limit.v * 1024

\* updates that move a personal cipher to the organization o1
TransferDataSet ==
    CipherDataOf({"o1"}, {[kind |-> "none", t |-> 0]}, {-1}, {None},
                 {{1}}, {"None"})

\* a state within the ceilings from which an accepted transfer of a personal
\* cipher leads to a state beyond the ceiling of the organization
TransferBeyondCeiling ==
    \E u \in Users, cid \in DOMAIN ciphers, data \in TransferDataSet :
        LET out == put_cipher(DB, cid, data, u) IN
        /\ WithinCeiling(DB, config)
        /\ out.res = "Ok"
        /\ ~WithinCeiling(out.db, config)

\* C31: for every owner (user or organization) with a configured non-zero
\* limit, in every state reached by v2 reservations, v2 data uploads, legacy
\* uploads, attachment deletions and personal-to-organization transfers,
\* the sum of file_size over the attachment records counted against the
\* owner does not exceed limit*1024 bytes.
C31_QuotaCeiling ==
    /\ WithinCeiling(DB, config)
    /\ ~TransferBeyondCeiling

----------------------------------------------------------------------------
(* Specification: two legacy uploads that run at the same time *)

\* received sizes around the limit of one KiB
RaceUploads == [size : {1, 1023, 1024}, has_name : {TRUE}, has_key : {TRUE}]

\* the attachment ids not taken by a stored record or a request in flight
FreeAttachmentIds ==
    Cardinality(AttachmentIds) - Cardinality(DOMAIN attachments)
        - Cardinality(DOMAIN inflight)

\* save_attachment up to the size limit: the handler has read the cipher
\* and, with Attachment::size_by_user / size_by_org, the bytes already
\* used, as the database is now
BeginUpload ==
    \E r \in RequestIds \ DOMAIN inflight, u \in Users,
       cid \in DOMAIN ciphers, upload \in RaceUploads :
        /\ FreeAttachmentIds > 0
        /\ inflight' = (r :> [user |-> u, cid |-> cid, data |-> upload,
                              read |-> DB]) @@ inflight
        /\ UNCHANGED <<ciphers, collections_ciphers, attachments,
                       folders_ciphers, favorites, folders, members, policies,
                       now, id_pool, config, last>>

\* the outcome with the bytes already used read again when the record is
\* saved
UploadOutcome_Reloaded(r) ==
    post_attachment(DB, inflight[r].cid, inflight[r].data, inflight[r].user,
                    config)

\* the outcome of save_attachment for the upload in flight: judged on the
\* usage the handler read, saved on the database as it is now
UploadOutcome_InFlight(r) ==
    LET q == inflight[r]
        judged == post_attachment(q.read, q.cid, q.data, q.user, config)
    IN IF judged.res # "Ok" THEN Err(judged.res, DB)
       ELSE Out("Ok",
                AttachmentSave(DB, FreshAttachmentId(DB),
                               NewAttachment(q.cid, q.data.size)),
                judged.events, judged.notifs)

\* save_attachment from the size limit to the answer
FinishUpload ==
    \E r \in DOMAIN inflight :
        /\ Written(UploadOutcome_InFlight(r), "post_attachment",
                   inflight[r].user, inflight[r].cid,
                   KeptUpload(FreshAttachmentId(DB), inflight[r].data.size))
        /\ inflight' = [k \in DOMAIN inflight \ {r} |-> inflight[k]]

InitUpload ==
    /\ InitWorld
    /\ now = MaxTime
    /\ id_pool = {"k1"}
    /\ config = [user_attachment_limit |-> SomeI64(1),
                 org_attachment_limit |-> SomeI64(1),
                 org_groups_enabled |-> FALSE]

NextUpload ==
    \/ PostCiphers(QuotaNewDataSet)
    \/ BeginUpload
    \/ FinishUpload

SpecUpload == InitUpload /\ [][NextUpload]_vars

----------------------------------------------------------------------------
(* Concurrent uploads for one owner *)

\* the bytes the request in flight read as already used by the owner
UsedAsRead(r) ==
    LET c == inflight[r].read.ciphers[inflight[r].cid] IN
    IF c.user_uuid # None THEN size_by_user(inflight[r].read, c.user_uuid)
    ELSE size_by_org(inflight[r].read, c.organization_uuid)

\* the uploads in flight of requesters who may write the cipher
WriterUploads ==
    {r \in DOMAIN inflight :
        is_write_accessible_to_user(ciphers[inflight[r].cid],
                                    inflight[r].cid, inflight[r].user,
                                    collections_ciphers)}

\* C32 as stated: under every interleaving of the read, check and save
\* steps of two legacy uploads for one owner, the owner's stored attachment
\* size after both requests have finished is at most limit*1024 bytes.
C32_Original ==
    inflight = << >> => WithinCeiling(DB, config)

\* C32: a legacy upload is accepted exactly when the received size fits
\* what remained of limit*1024 when the request read the owner's usage, and
\* its record is then added to whatever has been stored since; the total
\* stays within limit*1024 when nothing was stored between the read and the
\* save of the request.
C32_JudgedOnUsageRead ==
    \A r \in WriterUploads :
        LET out == UploadOutcome_InFlight(r)
            remaining == OwnerLimit(inflight[r].cid).v * 1024 - UsedAsRead(r)
        IN
        /\ out.res = "Ok" <=>
              (remaining > 0 /\ inflight[r].data.size <= remaining)
        /\ out.res = "Ok" =>
              AlreadyUsed(inflight[r].cid) + inflight[r].data.size
                 = IF ciphers[inflight[r].cid].user_uuid # None
                   THEN size_by_user(out.db, ciphers[inflight[r].cid].user_uuid)
                   ELSE size_by_org(out.db,
                            ciphers[inflight[r].cid].organization_uuid)
        /\ out.res # "Ok" => out.db = DB
        /\ (out.res = "Ok" /\ UsedAsRead(r) = AlreadyUsed(inflight[r].cid)
              /\ WithinCeiling(DB, config))
              => WithinCeiling(out.db, config)

\* both uploads had read a usage of zero before either was saved, both have
\* been accepted and the owner's total is beyond the limit
C32_Witness ==
    /\ last.op = "post_attachment"
    /\ last.res = "Ok"
    /\ inflight = << >>
    /\ Cardinality(DOMAIN attachments) = 2
    /\ ~WithinCeiling(DB, config)

----------------------------------------------------------------------------
(* Access before content and assignments *)

\* the (user, cipher) pairs for which the accessibility check fails
Inaccessible ==
    {p \in Users \X DOMAIN ciphers :
        ~is_accessible_to_user(ciphers[p[2]], p[2], p[1],
                               collections_ciphers)}

\* the folder and favorite rows of user u for cipher cid
AssignmentsOf(db, u, cid) ==
    <<{a \in db.fc : a[1] = u /\ a[2] = cid},
      {a \in db.fav : a[1] = u /\ a[2] = cid}>>

\* get_cipher (and its admin and details variants) and get_attachment answer
\* with content only for an accessible cipher
ContentGuarded ==
    \A p \in Inaccessible :
        /\ get_cipher(DB, p[2], p[1]).res # "Ok"
        /\ \A aid \in AttachmentIds :
              get_attachment(DB, p[2], aid, p[1]).res # "Ok"

\* move_cipher_selected is rejected when the list holds an inaccessible
\* cipher and writes no assignment for it
MoveGuarded ==
    \A p \in Inaccessible :
        \A ids \in {l \in CipherIdLists : p[2] \in SeqRange(l)},
           f \in {None, "f1", "f2"} :
            LET out == move_cipher_selected(DB, ids, f, p[1]) IN
            /\ out.res # "Ok"
            /\ AssignmentsOf(out.db, p[1], p[2]) = AssignmentsOf(DB, p[1], p[2])

\* put_cipher_partial is rejected for an inaccessible cipher and writes
\* nothing
PartialGuarded ==
    \A p \in Inaccessible : \A data \in PartialDataSet :
        LET out == put_cipher_partial(DB, p[2], data, p[1]) IN
        /\ out.res # "Ok"
        /\ out.db = DB

\* C33: every handler that returns a cipher's serialized content, or that
\* creates or changes the requester's folder or favorite assignment of a
\* stored cipher (get_cipher and its variants, get_attachment,
\* put_cipher_partial, move_cipher_selected), does so only after the
\* accessibility check for the requester has succeeded: for a cipher that
\* is not accessible to the requester the request is rejected, nothing is
\* returned and no assignment is written.
C33_AccessBeforeContent ==
    /\ ContentGuarded
    /\ MoveGuarded
    /\ PartialGuarded

----------------------------------------------------------------------------
(* A rejected creation leaves nothing behind *)

\* the create/clone requests that can be made while the generator has an
\* id left
CreateRequests ==
    {r \in [u : Users, data : NewCipherDataSet, cols : CollectionIdLists] :
        CanCreate(DB, 1)}

\* C34: the create/clone endpoint (post_ciphers_create, post_ciphers_admin)
\* never leaves an empty cipher behind: whenever it returns an error (no
\* collection selected, policy violation, invalid or unwritable collection,
\* missing membership, invalid type, missing payload, invalid folder), no
\* new cipher record and no new collection link remain persisted.
C34_NoEmptyCipher ==
    \A r \in CreateRequests :
        LET out == post_ciphers_create(DB, r.data, r.cols, r.u) IN
        out.res # "Ok" =>
            /\ DOMAIN out.db.ciphers = DOMAIN ciphers
            /\ out.db.cc = collections_ciphers

----------------------------------------------------------------------------
(* Organization ciphers and their collections *)

\* the request made cipher cid a cipher of an organization: it was not
\* stored, or was personal, and is stored with an owner organization now
BecomesOrganizationOwned(out, cid) ==
    /\ out.res = "Ok"
    /\ cid \in DOMAIN out.db.ciphers
    /\ out.db.ciphers[cid].organization_uuid # None
    /\ cid \in DOMAIN ciphers => ciphers[cid].organization_uuid = None

\* cipher cid is linked to a collection of its organization
LinkedInOrganization(db, cid) ==
    \E c \in LinksOf(db.cc, cid) :
        collection_org(c) = db.ciphers[cid].organization_uuid

\* bulk-share requests: one or two posted ciphers, with or without id
ShareSelectedItems ==
    LET Item == [id : id_pool \cup {None}, data : ShareDataSet]
    IN {<<i>> : i \in Item}
       \cup {<<i, j>> : i \in Item, j \in {x \in Item : x.id = None}}

\* post_ciphers_create and post_ciphers_admin
CreateLinked ==
    \A r \in CreateRequests :
        LET out == post_ciphers_create(DB, r.data, r.cols, r.u) IN
        BecomesOrganizationOwned(out, FreshCipherId(DB))
            => LinkedInOrganization(out.db, FreshCipherId(DB))

\* put_cipher_share_selected
BulkShareLinked ==
    \A u \in Users, items \in ShareSelectedItems, cols \in CollectionIdLists :
        LET out == put_cipher_share_selected(DB, items, cols, u) IN
        \A cid \in DOMAIN ciphers :
            BecomesOrganizationOwned(out, cid)
                => LinkedInOrganization(out.db, cid)

\* share_cipher_by_uuid (put_cipher_share, post_cipher_share)
ShareLinked ==
    \A u \in Users, cid \in DOMAIN ciphers, data \in ShareDataSet,
       cols \in CollectionIdLists :
        LET out == share_cipher_by_uuid(DB, cid, data, cols, u) IN
        BecomesOrganizationOwned(out, cid)
            => LinkedInOrganization(out.db, cid)

\* put_cipher and post_ciphers: update_cipher_from_data without a share
UpdateLinked ==
    /\ \A u \in Users, cid \in DOMAIN ciphers, data \in CipherDataSet :
          LET out == put_cipher(DB, cid, data, u) IN
          BecomesOrganizationOwned(out, cid)
              => LinkedInOrganization(out.db, cid)
    /\ \A u \in Users, data \in {x \in NewCipherDataSet : CanCreate(DB, 1)} :
          LET out == post_ciphers(DB, data, u) IN
          BecomesOrganizationOwned(out, FreshCipherId(DB))
              => LinkedInOrganization(out.db, FreshCipherId(DB))

\* C35: every cipher that becomes organization-owned through a create,
\* clone, share, bulk-share or update request is linked to at least one
\* collection of that organization when the request completes successfully;
\* a request that would make a cipher organization-owned with no collection
\* is rejected.
C35_OrganizationCipherLinked ==
    /\ CreateLinked
    /\ BulkShareLinked
    /\ ShareLinked
    /\ UpdateLinked

----------------------------------------------------------------------------
(* Replacing an attachment *)

\* the replacement uploads: with or without file name and key
ShareUploads == [size : UploadSizes, has_name : BOOLEAN, has_key : BOOLEAN]

\* the replacements of a stored attachment through its cipher by a user who
\* may write the cipher
ShareRequests ==
    {r \in [u : Users, aid : DOMAIN attachments, upload : ShareUploads] :
        /\ attachments[r.aid].cipher_uuid \in DOMAIN ciphers
        /\ is_write_accessible_to_user(ciphers[attachments[r.aid].cipher_uuid],
                                       attachments[r.aid].cipher_uuid, r.u,
                                       collections_ciphers)}

\* C36: post_attachment_share replaces an attachment atomically with
\* respect to failure: after the request either the new attachment is
\* stored (success) or the original attachment record still exists (error);
\* a failed replacement upload (quota exhausted, attachments disabled,
\* missing key or file name) never leaves the cipher with the original
\* deleted and no replacement.
C36_ShareAtomic ==
    \A r \in ShareRequests :
        LET cid == attachments[r.aid].cipher_uuid
            out == post_attachment_share(DB, cid, r.aid, r.upload, r.u,
                                         config)
        IN IF out.res = "Ok"
           THEN \E a \in DOMAIN out.db.atts :
                   out.db.atts[a] = NewAttachment(cid, r.upload.size)
           ELSE /\ r.aid \in DOMAIN out.db.atts
                /\ out.db.atts[r.aid] = attachments[r.aid]

----------------------------------------------------------------------------
(* Reconciliation on a personal cipher *)

\* the reconciliation requests, standard and admin, on a stored cipher with
\* no owner organization by a user who may write it, for every posted set
\* and every iteration order of the symmetric difference
PersonalReconcileRequests ==
    {r \in [u : Users, cid : DOMAIN ciphers, posted : SUBSET Collections,
            admin : BOOLEAN] :
        /\ ciphers[r.cid].organization_uuid = None
        /\ is_write_accessible_to_user(ciphers[r.cid], r.cid, r.u,
                                       collections_ciphers)}

\* C37: a collection reconciliation request (standard or admin variant) on
\* a cipher that has no owner organization, issued by a user with write
\* access to it, ends with an error result and no link change, for every
\* posted set including the empty one; the handler never reaches the unwrap
\* of an absent organization id.
C37_PersonalReconcileRejected ==
    \A r \in PersonalReconcileRequests :
        \A order \in symmetric_difference(r.posted,
                         CurrentCollections(DB, r.cid, r.u, r.admin)) :
            LET out == post_collections_update(DB, r.cid, r.posted, order,
                                               r.u, r.admin)
            IN /\ out.res \notin {"Ok", "Panic"}
               /\ out.db.cc = collections_ciphers

----------------------------------------------------------------------------
(* Specification: purges of personal and organization vaults *)

\* Membership roles (MembershipType) and the access_all flag
RoleOptions ==
    [atype : {"Owner", "Admin", "Manager", "User", "Custom"},
     access_all : BOOLEAN]

\* ciphers created for the purge: personal or of o1, in a folder or not
PurgeDataSet ==
    {x \in CipherDataOf({None, "o1"}, {[kind |-> "none", t |-> 0]}, {-1},
                        {None, "f1", "f2"}, {{1}}, {"None"}) : x.atype = 1}

\* what is kept of a purge request, with the ids of the ciphers stored when
\* it was made
KeptPurge(organization, validated, stored) ==
    [organization_id |-> None, rev |-> "n/a", organization |-> organization,
     validated |-> validated, stored |-> stored]

\* an administrator gives u2 a role in o1, changes it or removes u2
SetRole ==
    /\ \/ \E m \in RoleOptions : members' = MembersWith("u2", "o1", m)
       \/ members' = MembersWithout("u2", "o1")
    /\ members' # members
    /\ last' = NoLast
    /\ UNCHANGED <<ciphers, collections_ciphers, attachments, folders_ciphers,
                   favorites, folders, policies, now, id_pool, config,
                   inflight>>

Purge ==
    \E u \in Users, organization \in Orgs \cup {None}, validated \in BOOLEAN :
        /\ ciphers # << >>
        /\ Apply(delete_all(DB, organization, validated, u), "delete_all", u,
                 None, KeptPurge(organization, validated, DOMAIN ciphers))

InitPurge ==
    /\ InitWorld
    /\ now = MaxTime
    /\ id_pool = {"k1", "k2"}
    /\ config = NoLimits

NextPurge ==
    \/ PostCiphers(PurgeDataSet)
    \/ SetRole
    \/ Purge

SpecPurge == InitPurge /\ [][NextPurge]_vars

----------------------------------------------------------------------------
(* Who may purge what *)

\* the ciphers of organization o, and the ciphers owned by user u
CiphersOfOrganization(db, o) ==
    {k \in DOMAIN db.ciphers : db.ciphers[k].organization_uuid = o}

CiphersOfUser(db, u) ==
    {k \in DOMAIN db.ciphers : db.ciphers[k].user_uuid = u}

\* the purge removed exactly the ciphers gone and left every other row as
\* it was
PurgedExactly(out, gone) ==
    /\ DOMAIN out.db.ciphers = DOMAIN ciphers \ gone
    /\ \A k \in DOMAIN out.db.ciphers : out.db.ciphers[k] = ciphers[k]

\* C38: an organization-vault purge deletes the organization's ciphers only
\* when the requester has a membership in that organization whose role is
\* Owner; for a requester with no membership or with any other role (Admin,
\* Manager, User, Custom) the request is rejected and no cipher of the
\* organization is deleted.  A personal purge deletes exactly the ciphers
\* owned by the requesting user and that user's folders, and no
\* organization-owned cipher.
C38_PurgeByOwnerOnly ==
    \A u \in Users, validated \in BOOLEAN :
        /\ \A o \in Orgs :
              LET out == delete_all(DB, o, validated, u) IN
              IF /\ validated
                 /\ HasMember(u, o)
                 /\ members[<<u, o>>].atype = "Owner"
              THEN /\ out.res = "Ok"
                   /\ PurgedExactly(out, CiphersOfOrganization(DB, o))
                   /\ out.db.folders = folders
              ELSE /\ out.res # "Ok"
                   /\ out.db = DB
        /\ LET out == delete_all(DB, None, validated, u) IN
           IF validated
           THEN /\ out.res = "Ok"
                /\ PurgedExactly(out, CiphersOfUser(DB, u))
                /\ DOMAIN out.db.folders = {f \in DOMAIN folders : folders[f] # u}
                /\ \A o \in Orgs : CiphersOfOrganization(out.db, o)
                                      = CiphersOfOrganization(DB, o)
           ELSE out.res # "Ok" /\ out.db = DB

\* u2, made Owner of o1 by an administrator, has purged the vault of o1
\* while a personal cipher was stored: the personal cipher is still there
\* and no cipher of o1 is
C38_Witness ==
    /\ last.op = "delete_all"
    /\ last.res = "Ok"
    /\ last.user = "u2"
    /\ last.data.organization = "o1"
    /\ members[<<"u2", "o1">>].atype = "Owner"
    /\ last.data.stored \ DOMAIN ciphers # {}
    /\ CiphersOfOrganization(DB, "o1") = {}
    /\ \E k \in DOMAIN ciphers : ciphers[k].user_uuid # None
    /\ last.events # <<>>

----------------------------------------------------------------------------
(* Specification: folder assignments through every handler that writes them *)

\* the folders posted with an import: none, a folder of u1, a folder of u2,
\* a folder without id
PostedFolders == {<<>>, <<"f1">>, <<"f2">>, <<None>>}

\* imports of one personal cipher, put in the posted folder or in none
FolderImportSet ==
    [ciphers : {<<d>> : d \in {x \in BulkImportDataSet :
                                  x.atype = 1 /\ x.organization_id = None}},
     folders : PostedFolders,
     folder_relationships : {<<>>, <<1>>}]

\* ids are left for the folders the import creates
CanCreateFolders(db, posted, u) ==
    Cardinality({i \in 1..Len(posted) : ~FolderOfUser(db, posted[i], u)})
        <= Cardinality(FolderIds \ DOMAIN db.folders)

\* what is kept of an import with folders
KeptImport(imp) ==
    [organization_id |-> None, rev |-> "n/a", folders |-> imp.folders,
     folder_relationships |-> imp.folder_relationships]

ImportIntoFolders ==
    \E u \in Users, imp \in FolderImportSet :
        /\ CanCreate(DB, Len(imp.ciphers))
        /\ CanCreateFolders(DB, imp.folders, u)
        /\ Apply(post_ciphers_import(DB, imp, u), "post_ciphers_import", u,
                 None, KeptImport(imp))

InitOwnFolders ==
    /\ InitWorld
    /\ now = MaxTime
    /\ id_pool = {"k1"}
    /\ config = NoLimits

NextOwnFolders ==
    \/ PostCiphers(FolderDataSet)
    \/ PutCipher(FolderDataSet, FALSE)
    \/ PutCipherPartial
    \/ MoveCiphers
    \/ ImportIntoFolders

SpecOwnFolders == InitOwnFolders /\ [][NextOwnFolders]_vars

----------------------------------------------------------------------------
(* Folder assignments refer to the user's own folders *)

\* every (user, cipher, folder) assignment names a folder of that user
AssignmentsOwned(db) ==
    \A a \in db.fc : FolderOfUser(db, a[3], a[1])

\* the (user, folder id) pairs where the id is of no folder or of a folder
\* of another user
ForeignFolders ==
    {p \in Users \X FolderIds : ~FolderOfUser(DB, p[2], p[1])}

\* creations and updates that name the folder f
InFolder(f) ==
    {x \in CipherDataOf({None, "o1"}, {[kind |-> "none", t |-> 0]}, {-1},
                        {f}, {{1}}, {"None", "true"}) : x.atype = 1}

\* create, update, partial update and move with a foreign folder id are
\* rejected and write no assignment
ForeignFolderRejected ==
    \A p \in ForeignFolders :
        LET u == p[1]
            f == p[2]
        IN
        /\ \A d \in {x \in InFolder(f) : CanCreate(DB, 1)} :
              LET out == post_ciphers(DB, d, u) IN
              out.res # "Ok" /\ out.db.fc = folders_ciphers
        /\ \A cid \in DOMAIN ciphers, d \in InFolder(f) :
              LET out == put_cipher(DB, cid, d, u) IN
              out.res # "Ok" /\ out.db.fc = folders_ciphers
        /\ \A cid \in DOMAIN ciphers, fav \in BOOLEAN :
              LET out == put_cipher_partial(DB, cid,
                             [folder_id |-> f, favorite |-> fav], u)
              IN out.res = "InvalidFolder" /\ out.db = DB
        /\ \A ids \in CipherIdLists :
              LET out == move_cipher_selected(DB, ids, f, u) IN
              out.res = "InvalidFolder" /\ out.db = DB

\* an import assigns its ciphers to folders of the requester only: the
\* folders the requester had, or folders created for the requester
ImportIntoOwnFolders ==
    \A u \in Users :
        \A imp \in {x \in FolderImportSet :
                      /\ CanCreate(DB, Len(x.ciphers))
                      /\ CanCreateFolders(DB, x.folders, u)} :
            LET out == post_ciphers_import(DB, imp, u) IN
            /\ AssignmentsOwned(out.db)
            /\ \A a \in out.db.fc \ folders_ciphers :
                  /\ a[1] = u
                  /\ \/ FolderOfUser(DB, a[3], u)
                     \/ a[3] \notin DOMAIN folders
            /\ \A f \in DOMAIN folders : out.db.folders[f] = folders[f]

\* C39: in every reachable state each (user, cipher) folder assignment
\* refers to a folder owned by that same user: create, update, partial
\* update and bulk move reject a folder id that does not exist or belongs to
\* another user before writing any assignment, and import places ciphers
\* only into the requester's existing folders or folders newly created for
\* the requester.
C39_AssignmentToOwnFolder ==
    /\ AssignmentsOwned(DB)
    /\ ForeignFolderRejected
    /\ ImportIntoOwnFolders

\* u1 has imported a cipher with the folder of u2 posted for it: a folder
\* has been created for u1 and the cipher is assigned to it, and to no
\* folder of u2
C39_Witness ==
    /\ last.op = "post_ciphers_import"
    /\ last.res = "Ok"
    /\ last.user = "u1"
    /\ last.data.folders = <<"f2">>
    /\ last.data.folder_relationships = <<1>>
    /\ "f3" \in DOMAIN folders
    /\ folders["f3"] = "u1"
    /\ \E k \in DOMAIN ciphers : <<"u1", k, "f3">> \in folders_ciphers
    /\ \A a \in folders_ciphers : a[3] # "f2"

----------------------------------------------------------------------------
(* Re-keying leaves the attachments of other ciphers alone *)

\* the stored attachments that do not belong to cipher cid
AttachmentsOfOthers(cid) ==
    {a \in DOMAIN attachments : attachments[a].cipher_uuid # cid}

\* the outcomes of the requests that run the re-keying loop for cipher cid:
\* the update and the share
RekeyOutcomes(u, cid) ==
    {put_cipher(DB, cid, d, u) : d \in RekeyDataSet}
    \cup {share_cipher_by_uuid(DB, cid, d, <<>>, u) : d \in RekeyDataSet}

\* C40: attachment re-keying performed by an update of cipher C never
\* modifies an attachment whose cipher_uuid is not C: for every posted
\* attachment id belonging to another cipher, that attachment's key and
\* file name are the same after the request as before, whatever the
\* requester's access to the other cipher.
C40_RekeyOwnAttachmentsOnly ==
    \A u \in Users, cid \in DOMAIN ciphers :
        \A out \in RekeyOutcomes(u, cid) :
            \A a \in AttachmentsOfOthers(cid) :
                /\ a \in DOMAIN out.db.atts
                /\ out.db.atts[a] = attachments[a]

\* an update of a cipher has re-keyed the cipher's own attachment and then
\* met a posted attachment of another cipher the requester owns as well:
\* that attachment still has the key and file name it was stored with
C40_Witness ==
    /\ last.op = "put_cipher"
    /\ last.res = "Ok"
    /\ Len(last.data.attachments2) = 2
    /\ LET own == last.data.attachments2[1]
           other == last.data.attachments2[2]
       IN /\ own \in DOMAIN attachments
          /\ other \in DOMAIN attachments
          /\ attachments[own].cipher_uuid = last.cid
          /\ attachments[own].akey = "rotated"
          /\ attachments[other].cipher_uuid # last.cid
          /\ attachments[other].cipher_uuid \in DOMAIN ciphers
          /\ ciphers[attachments[other].cipher_uuid].user_uuid = last.user
          /\ attachments[other] = NewAttachment(attachments[other].cipher_uuid,
                                                attachments[other].file_size)

====
